---- MODULE Spec2Model ----
(***************************************************************************)
(* Model of the offline GTFS journey planner (DataManager, PriorityQueue,  *)
(* LocalPathfinder of src/public/js/dataManager.js) and of the live map    *)
(* around it (initializeApp, updateData, TripScheduler,                    *)
(* BusPositionCalculator, MapRenderer.onStopClick).                        *)
(*                                                                         *)
(* A state holds one loaded catalog (feed), one query and the per-query    *)
(* search state of LocalPathfinder.findItinerary: the priority queue, the  *)
(* provisional arrival labels, the back-links and the outcome.             *)
(* Geography is one-dimensional: a coordinate is a position in metres on   *)
(* a line (lat) with lon = 0, so distances are exact integers.             *)
(***************************************************************************)
EXTENDS Integers, Sequences, FiniteSets, Bags, TLC

VARIABLES feed, transferMap, query, pc, serviceId, pq, minArrivalTime, backLink,
          finalStopId, result, expanded, previous, timeInfo, activeBuses,
          busesWithPositions, popup, app, clock, isPlannerMode, visibleRoutes,
          busMarkers, clusterGroup, clusterShown, itineraryLayer

vars == <<feed, transferMap, query, pc, serviceId, pq, minArrivalTime, backLink,
          finalStopId, result, expanded, previous, timeInfo, activeBuses,
          busesWithPositions, popup, app, clock, isPlannerMode, visibleRoutes,
          busMarkers, clusterGroup, clusterShown, itineraryLayer>>

\* The state of the live map (main.js updateData): the time of the last
\* update, the buses TripScheduler.getActiveTrips returned for it and these
\* buses with the positions BusPositionCalculator gave them; the clock shown
\* (updateClock), the planner mode and the route filter of main.js; and of
\* mapRenderer.js the registry of bus markers, the markers of the cluster
\* group (a bag of the ids of the trips they were made for), whether the
\* cluster group is on the map, and the layers of the itinerary layer.
liveVars == <<timeInfo, activeBuses, busesWithPositions, clock, isPlannerMode,
              visibleRoutes, busMarkers, clusterGroup, clusterShown, itineraryLayer>>

\* The state a call of findItinerary does not touch: the live map, the popup
\* of the stop clicked last (mapRenderer.js onStopClick), the start-up of the
\* application (main.js initializeApp) and the outcome of the call before.
outsidePlanner == <<liveVars, popup, app, previous>>

(***************************************************************************)
(* Bounds of the model.                                                    *)
(***************************************************************************)
\* Times of day in the feed and the query are 00:00:00 .. 00:00:MaxTime.
MaxTime == 2
\* The while loop is followed as long as the queue holds at most MaxQueue
\* entries (a search over labels of 0 can grow the queue without end).
MaxQueue == 6

(***************************************************************************)
(* Program constants.                                                      *)
(***************************************************************************)
MAX_WALK_METERS == 500
\* WALK_SPEED_MPS = 1.4, kept as the exact fraction 14 / 10.
WALK_SPEED_NUM == 14
WALK_SPEED_DEN == 10

\* An absent value (undefined / null): the empty sequence; a present value v
\* is <<v>>.
None == <<>>
Some(v) == <<v>>

Abs(x) == IF x < 0 THEN -x ELSE x

\* Math.ceil(distance / WALK_SPEED_MPS) for a whole number of metres.
WalkTime(distance) ==
    (distance * WALK_SPEED_DEN + WALK_SPEED_NUM - 1) \div WALK_SPEED_NUM

\* A "HH:MM:SS" string is the triple <<HH, MM, SS>>.
timeToSeconds(timeStr) == timeStr[1] * 3600 + timeStr[2] * 60 + timeStr[3]

Coords(p) == [lat |-> p, lon |-> 0]

\* Great-circle distance in metres; positions lie on one line.
calculateDistance(lat1, lon1, lat2, lon2) == Abs(lat1 - lat2) + Abs(lon1 - lon2)

(***************************************************************************)
(* Sequence helpers.                                                       *)
(***************************************************************************)
Range(s) == {s[i] : i \in 1..Len(s)}

RECURSIVE FilterSeq(_, _)
FilterSeq(s, keep) ==
    IF s = <<>> THEN <<>>
    ELSE (IF Head(s) \in keep THEN <<Head(s)>> ELSE <<>>) \o FilterSeq(Tail(s), keep)

\* Array.prototype.find: the first element of s in the set ok, or None.
FindFirst(s, ok) ==
    LET hits == {i \in 1..Len(s) : s[i] \in ok}
    IN IF hits = {} THEN None
       ELSE Some(s[CHOOSE i \in hits : \A j \in hits : i <= j])

(***************************************************************************)
(* loadAllData: the indexes built over the parsed tables. The variable     *)
(* feed holds the tables (stops, trips, stopTimes, calendar,               *)
(* calendarDates) and the indexes (stopsById, tripsByTripId,               *)
(* stopTimesByTrip, stopTimesByStop, masterStops, groupedStopMap).         *)
(***************************************************************************)
\* Stable insertion of row st into a list sorted by stop_sequence.
RECURSIVE InsertBySequence(_, _)
InsertBySequence(sorted, st) ==
    IF sorted = <<>> THEN <<st>>
    ELSE IF st.stop_sequence < Head(sorted).stop_sequence
         THEN <<st>> \o sorted
         ELSE <<Head(sorted)>> \o InsertBySequence(Tail(sorted), st)

\* Array.prototype.sort by stop_sequence (stable).
RECURSIVE SortBySequence(_)
SortBySequence(rows) ==
    IF rows = <<>> THEN <<>>
    ELSE InsertBySequence(SortBySequence(SubSeq(rows, 1, Len(rows) - 1)), rows[Len(rows)])

\* reduce((acc, x) => acc[x.id] = x): the last row of each id.
LastWith(rows, hits) == rows[CHOOSE i \in hits : \A j \in hits : j <= i]

RoutesById(routes) ==
    [id \in {r.route_id : r \in Range(routes)} |->
        LastWith(routes, {i \in 1..Len(routes) : routes[i].route_id = id})]

StopsById(stops) ==
    [id \in {s.stop_id : s \in Range(stops)} |->
        LastWith(stops, {i \in 1..Len(stops) : stops[i].stop_id = id})]

TripsByTripId(trips) ==
    [id \in {t.trip_id : t \in Range(trips)} |->
        LastWith(trips, {i \in 1..Len(trips) : trips[i].trip_id = id})]

\* stopTimesByTrip: the rows of each trip_id, sorted by stop_sequence.
StopTimesByTrip(stopTimes) ==
    [id \in {st.trip_id : st \in Range(stopTimes)} |->
        SortBySequence(FilterSeq(stopTimes, {st \in Range(stopTimes) : st.trip_id = id}))]

\* preprocessStopTimesByStop: the rows of each stop_id, in feed order.
preprocessStopTimesByStop(stopTimes) ==
    [id \in {st.stop_id : st \in Range(stopTimes)} |->
        FilterSeq(stopTimes, {st \in Range(stopTimes) : st.stop_id = id})]

HasParent(stop) == stop.parent_station # ""

\* groupNearbyStops: masterStops, in the order of stops.txt.
MasterStopsOf(stops) ==
    FilterSeq(stops, {s \in Range(stops) : s.location_type = "1" \/ ~HasParent(s)})

\* groupNearbyStops: the key of groupedStopMap whose list a stop joins.
GroupKey(stop) ==
    IF stop.location_type = "1" THEN stop.stop_id
    ELSE IF HasParent(stop) THEN stop.parent_station
    ELSE stop.stop_id

\* groupNearbyStops: groupedStopMap after the first n rows of stops.txt. A
\* station and a stop with a parent are appended to the list of their key,
\* created when absent; a stop that is neither is assigned the list of
\* itself alone, whatever the list of its key held before.
RECURSIVE GroupRows(_, _)
GroupRows(stops, n) ==
    IF n = 0 THEN <<>>
    ELSE LET map == GroupRows(stops, n - 1)
             stop == stops[n]
             key == GroupKey(stop)
             list == IF key \in DOMAIN map THEN map[key] ELSE <<>>
             put(l) == [k \in DOMAIN map \cup {key} |-> IF k = key THEN l ELSE map[k]]
         IN IF stop.location_type = "1" \/ HasParent(stop)
            THEN put(Append(list, stop.stop_id))
            ELSE put(<<stop.stop_id>>)

\* groupNearbyStops: groupedStopMap.
GroupedStopMapOf(stops) == GroupRows(stops, Len(stops))

\* The state of the DataManager after loadAllData on the parsed tables.
loadAllData(tables) ==
    [isLoaded |-> TRUE,
     routes |-> tables.routes,
     geoJson |-> tables.geoJson,
     routesById |-> RoutesById(tables.routes),
     stops |-> tables.stops,
     trips |-> tables.trips,
     stopTimes |-> tables.stopTimes,
     calendar |-> tables.calendar,
     calendarDates |-> tables.calendarDates,
     stopsById |-> StopsById(tables.stops),
     tripsByTripId |-> TripsByTripId(tables.trips),
     stopTimesByTrip |-> StopTimesByTrip(tables.stopTimes),
     stopTimesByStop |-> preprocessStopTimesByStop(tables.stopTimes),
     masterStops |-> MasterStopsOf(tables.stops),
     groupedStopMap |-> GroupedStopMapOf(tables.stops)]

\* routesById[routeId], or None when undefined.
RouteById(routeId) ==
    IF routeId \in DOMAIN feed.routesById THEN Some(feed.routesById[routeId]) ELSE None

\* getRouteGeometry(routeId): the geometry object of the first feature of
\* map.geojson whose properties.route_id is routeId, or None (null).
\* feed.geoJson is None when map.geojson was not loaded.
getRouteGeometry(routeId) ==
    IF feed.geoJson = None THEN None
    ELSE LET feature == FindFirst(feed.geoJson[1].features,
                                  {f \in Range(feed.geoJson[1].features) :
                                      f.properties.route_id = routeId})
         IN IF feature = None THEN None ELSE Some(feature[1].geometry)

\* stopsById[stopId] || null
getStop(stopId) ==
    IF stopId \in DOMAIN feed.stopsById THEN Some(feed.stopsById[stopId]) ELSE None

\* tripsByTripId[tripId], or None when undefined.
TripById(tripId) ==
    IF tripId \in DOMAIN feed.tripsByTripId THEN Some(feed.tripsByTripId[tripId]) ELSE None

\* stopTimesByTrip[tripId] || []
getStopTimes(tripId) ==
    IF tripId \in DOMAIN feed.stopTimesByTrip THEN feed.stopTimesByTrip[tripId] ELSE <<>>

\* stopTimesByStop[stopId] || []
StopTimesAt(stopId) ==
    IF stopId \in DOMAIN feed.stopTimesByStop THEN feed.stopTimesByStop[stopId] ELSE <<>>

\* findStopsWithinRadius(coords, radius): the master stops within the
\* radius, each with its distance.
findStopsWithinRadius(coords, radius) ==
    LET near == {s \in Range(feed.masterStops) :
                    calculateDistance(coords.lat, coords.lon, s.stop_lat, s.stop_lon) <= radius}
        kept == FilterSeq(feed.masterStops, near)
    IN [i \in 1..Len(kept) |->
          [stop |-> kept[i],
           distance |-> calculateDistance(coords.lat, coords.lon,
                                          kept[i].stop_lat, kept[i].stop_lon)]]

(***************************************************************************)
(* Service calendar.                                                       *)
(***************************************************************************)
DayNames == <<"sunday", "monday", "tuesday", "wednesday", "thursday", "friday", "saturday">>

\* getServiceId(date): a service_id as Some(id), or None (null).
\* date = [ymd, day]: the YYYYMMDD number and Date.getDay() (0 = sunday).
getServiceId(date) ==
    LET dayOfWeek == DayNames[date.day + 1]
        exception == FindFirst(feed.calendarDates,
                               {d \in Range(feed.calendarDates) : d.date = date.ymd})
        service == FindFirst(feed.calendar,
                             {s \in Range(feed.calendar) :
                                 /\ dayOfWeek \in s.days
                                 /\ s.start_date <= date.ymd
                                 /\ s.end_date >= date.ymd})
    IN IF exception # None
       THEN (IF exception[1].exception_type = "1" THEN Some(exception[1].service_id) ELSE None)
       ELSE (IF service # None THEN Some(service[1].service_id) ELSE None)

(***************************************************************************)
(* PriorityQueue.                                                          *)
(***************************************************************************)
\* enqueue with the element going before the first entry of greater or equal
\* priority (element[1] <= this.collection[i][1]).
RECURSIVE enqueueBeforeEqual(_, _)
enqueueBeforeEqual(collection, element) ==
    IF collection = <<>> THEN <<element>>
    ELSE IF element[2] <= Head(collection)[2]
         THEN <<element>> \o collection
         ELSE <<Head(collection)>> \o enqueueBeforeEqual(Tail(collection), element)

\* enqueue(element): element = <<value, priority>> goes before the first
\* entry of strictly greater priority, else to the end.
RECURSIVE enqueue(_, _)
enqueue(collection, element) ==
    IF collection = <<>> THEN <<element>>
    ELSE IF element[2] < Head(collection)[2]
         THEN <<element>> \o collection
         ELSE <<Head(collection)>> \o enqueue(Tail(collection), element)

\* dequeue(): the element shifted off the collection and the collection left.
dequeue(collection) == [element |-> Head(collection), collection |-> Tail(collection)]

(***************************************************************************)
(* LocalPathfinder.                                                        *)
(***************************************************************************)
\* Every stop id of the catalog: a key of minArrivalTime and backLink.
StopIds == DOMAIN feed.stopsById \cup DOMAIN feed.stopTimesByStop

NoStop == ""
NoTrip == ""

\* prebuildTransferMap keeping only the stops strictly nearer than
\* MAX_WALK_METERS.
prebuildTransferMapStrictlyNearer(stops) ==
    [id \in {s.stop_id : s \in Range(stops)} |->
        LET i == CHOOSE k \in {l \in 1..Len(stops) : stops[l].stop_id = id} :
                     \A l \in 1..Len(stops) : stops[l].stop_id = id => l <= k
            near == {j \in 1..Len(stops) :
                        /\ j # i
                        /\ calculateDistance(stops[i].stop_lat, stops[i].stop_lon,
                                             stops[j].stop_lat, stops[j].stop_lon)
                           < MAX_WALK_METERS}
            kept == FilterSeq([j \in 1..Len(stops) |-> j], near)
        IN [n \in 1..Len(kept) |->
              LET toStop == stops[kept[n]]
                  distance == calculateDistance(stops[i].stop_lat, stops[i].stop_lon,
                                                toStop.stop_lat, toStop.stop_lon)
              IN [toStopId |-> toStop.stop_id,
                  walkTime |-> WalkTime(distance),
                  distance |-> distance]]]

\* prebuildTransferMap: for each master stop (by index i), the transfers to
\* the master stops j # i within MAX_WALK_METERS, in the order of masterStops.
prebuildTransferMap(stops) ==
    [id \in {s.stop_id : s \in Range(stops)} |->
        LET i == CHOOSE k \in {l \in 1..Len(stops) : stops[l].stop_id = id} :
                     \A l \in 1..Len(stops) : stops[l].stop_id = id => l <= k
            near == {j \in 1..Len(stops) :
                        /\ j # i
                        /\ calculateDistance(stops[i].stop_lat, stops[i].stop_lon,
                                             stops[j].stop_lat, stops[j].stop_lon)
                           <= MAX_WALK_METERS}
            kept == FilterSeq([j \in 1..Len(stops) |-> j], near)
        IN [n \in 1..Len(kept) |->
              LET toStop == stops[kept[n]]
                  distance == calculateDistance(stops[i].stop_lat, stops[i].stop_lon,
                                                toStop.stop_lat, toStop.stop_lon)
              IN [toStopId |-> toStop.stop_id,
                  walkTime |-> WalkTime(distance),
                  distance |-> distance]]]

\* transferMap.get(stopId) || []
Transfers(stopId) ==
    IF stopId \in DOMAIN transferMap THEN transferMap[stopId] ELSE <<>>

\* departureDate.getHours() * 3600 + getMinutes() * 60 + getSeconds()
departureAtMidnight == timeToSeconds(<<0, 0, 0>>)

departureTimeSeconds == timeToSeconds(query.departure)

\* The initial WALK leg from the start coordinates to a start stop.
AccessLeg(stopInfo) ==
    [type |-> "WALK",
     fromStopId |-> NoStop,
     fromCoords |-> Some(query.startCoords),
     toStopId |-> stopInfo.stop.stop_id,
     toCoords |-> Some([lat |-> stopInfo.stop.stop_lat, lon |-> stopInfo.stop.stop_lon]),
     startTime |-> departureTimeSeconds,
     endTime |-> departureTimeSeconds + WalkTime(stopInfo.distance),
     duration |-> WalkTime(stopInfo.distance),
     distance |-> Some(stopInfo.distance),
     tripId |-> NoTrip]

\* BusLeg with the leg starting when the vehicle arrives at the boarding
\* stop instead of when it departs (arrival_time read for departure_time).
BusLegFromArrival(st, next) ==
    [type |-> "BUS",
     fromStopId |-> st.stop_id,
     fromCoords |-> None,
     toStopId |-> next.stop_id,
     toCoords |-> None,
     startTime |-> timeToSeconds(st.arrival_time),
     endTime |-> timeToSeconds(next.arrival_time),
     duration |-> timeToSeconds(next.arrival_time) - timeToSeconds(st.arrival_time),
     distance |-> None,
     tripId |-> st.trip_id]

\* A BUS leg on the trip of row st, boarded at st, left at row next.
BusLeg(st, next) ==
    [type |-> "BUS",
     fromStopId |-> st.stop_id,
     fromCoords |-> None,
     toStopId |-> next.stop_id,
     toCoords |-> None,
     startTime |-> timeToSeconds(st.departure_time),
     endTime |-> timeToSeconds(next.arrival_time),
     duration |-> timeToSeconds(next.arrival_time) - timeToSeconds(st.departure_time),
     distance |-> None,
     tripId |-> st.trip_id]

\* A WALK transfer leg from the current stop along a transfer record.
\* fromStop and toStop are the records getStop returned.
TransferLeg(fromStop, toStop, currentArrivalTime, transfer) ==
    [type |-> "WALK",
     fromStopId |-> fromStop.stop_id,
     fromCoords |-> Some([lat |-> fromStop.stop_lat, lon |-> fromStop.stop_lon]),
     toStopId |-> transfer.toStopId,
     toCoords |-> Some([lat |-> toStop.stop_lat, lon |-> toStop.stop_lon]),
     startTime |-> currentArrivalTime,
     endTime |-> currentArrivalTime + transfer.walkTime,
     duration |-> transfer.walkTime,
     distance |-> Some(transfer.distance),
     tripId |-> NoTrip]

\* (label || Infinity): an absent label and a label of 0 are both falsy and
\* read as Infinity, which is None here.
OrInfinity(label) == IF label = None \/ label[1] = 0 THEN None ELSE label

\* t < bound, where a bound of None is Infinity.
LessThan(t, bound) == bound = None \/ t < bound[1]

\* t > bound, where a bound of None is Infinity.
GreaterThan(t, bound) == bound # None /\ t > bound[1]

\* The test guarding every relaxation:
\* arrivalTime < (minArrivalTime.get(stopId) || Infinity).
Improves(arrivalTime, label) == LessThan(arrivalTime, OrInfinity(label))

\* The stale-entry test of the dequeue:
\* currentArrivalTime > (minArrivalTime.get(currentStopId) || Infinity).
IsStale(currentArrivalTime, label) == GreaterThan(currentArrivalTime, OrInfinity(label))

\* The rows of st's trip after st (stop_sequence greater), each proposed as
\* a BUS leg; knownStops tells whether getStop finds both ends of the leg.
NextStopsOnTrip(st) ==
    LET tripStops == getStopTimes(st.trip_id)
        later == FilterSeq(tripStops,
                           {x \in Range(tripStops) : x.stop_sequence > st.stop_sequence})
    IN [i \in 1..Len(later) |->
          [throws |-> FALSE,
           leg |-> Some(BusLeg(st, later[i])),
           knownStops |-> getStop(st.stop_id) # None /\ getStop(later[i].stop_id) # None]]

\* A. bus expansion: the proposals of the rows at the current stop, in the
\* order the loops make them. A row whose trip_id is unknown makes
\* trip.service_id throw: the proposals end with a throwing entry.
RECURSIVE BusProposals(_, _, _)
BusProposals(departures, currentArrivalTime, service) ==
    IF departures = <<>> THEN <<>>
    ELSE LET st == Head(departures)
             trip == TripById(st.trip_id)
         IN IF trip = None
            THEN <<[throws |-> TRUE, leg |-> None, knownStops |-> FALSE]>>
            ELSE (IF /\ trip[1].service_id = service
                     /\ timeToSeconds(st.departure_time) >= currentArrivalTime
                  THEN NextStopsOnTrip(st)
                  ELSE <<>>)
                 \o BusProposals(Tail(departures), currentArrivalTime, service)

\* B. walk expansion: one proposal per transfer of the current stop.
TransferProposals(currentStopId, currentArrivalTime) ==
    LET transfers == Transfers(currentStopId)
    IN [i \in 1..Len(transfers) |->
          [throws |-> FALSE,
           leg |-> Some(TransferLeg(getStop(currentStopId)[1],
                                    getStop(transfers[i].toStopId)[1],
                                    currentArrivalTime, transfers[i])),
           knownStops |-> TRUE]]

\* One proposal against the search state S = [pq, minArrivalTime, backLink,
\* thrown]: accepted iff it improves the label of its stop; then the label
\* is set, the leg is enqueued and the back-link is written.
Relax(S, proposal, currentStopId) ==
    IF S.thrown THEN S
    ELSE IF proposal.throws THEN [S EXCEPT !.thrown = TRUE]
    ELSE LET leg == proposal.leg[1]
         IN IF Improves(leg.endTime, S.minArrivalTime[leg.toStopId])
            THEN IF ~proposal.knownStops
                 THEN [S EXCEPT !.thrown = TRUE]
                 ELSE [pq |-> enqueue(S.pq, <<leg, leg.endTime>>),
                       minArrivalTime |->
                           [S.minArrivalTime EXCEPT ![leg.toStopId] = Some(leg.endTime)],
                       backLink |->
                           [S.backLink EXCEPT ![leg.toStopId] =
                               Some([leg |-> leg, prevStopId |-> currentStopId])],
                       thrown |-> FALSE]
            ELSE S

RECURSIVE RelaxAll(_, _, _)
RelaxAll(S, proposals, currentStopId) ==
    IF proposals = <<>> THEN S
    ELSE RelaxAll(Relax(S, Head(proposals), currentStopId), Tail(proposals), currentStopId)

\* The body of the while loop after the stale and destination tests:
\* bus expansion, then walk expansion.
Expand(S, currentStopId, currentArrivalTime, service) ==
    LET afterBus == RelaxAll(S, BusProposals(StopTimesAt(currentStopId),
                                             currentArrivalTime, service),
                             currentStopId)
    IN IF afterBus.thrown THEN afterBus
       ELSE RelaxAll(afterBus, TransferProposals(currentStopId, currentArrivalTime),
                     currentStopId)

\* The stops within walking range of the end coordinates.
endStopIds ==
    {e.stop.stop_id : e \in Range(findStopsWithinRadius(query.endCoords, MAX_WALK_METERS))}

\* 3. the initial frontier: RelaxAll does not apply, the start labels are
\* set without a test.
RECURSIVE InitFrontier(_, _)
InitFrontier(S, startStops) ==
    IF startStops = <<>> THEN S
    ELSE LET leg == AccessLeg(Head(startStops))
         IN InitFrontier(
               [pq |-> enqueue(S.pq, <<leg, leg.endTime>>),
                minArrivalTime |->
                    [S.minArrivalTime EXCEPT ![leg.toStopId] = Some(leg.endTime)],
                backLink |->
                    [S.backLink EXCEPT ![leg.toStopId] =
                        Some([leg |-> leg, prevStopId |-> "START"])],
                thrown |-> FALSE],
               Tail(startStops))

\* reconstructPath, the loop over the back-links: the legs from the final
\* stop back to the access leg. The loop ends at the first link whose
\* prevStopId is START; on a cyclic chain it never ends, which a walk of more
\* links than there are stops shows (hang). A missing link throws.
RECURSIVE BackLegs(_, _)
BackLegs(stopId, fuel) ==
    LET currentLink == backLink[stopId]
    IN IF currentLink = None THEN [end |-> "THROWN", legs |-> <<>>]
       ELSE IF currentLink[1].prevStopId = "START"
            THEN [end |-> "OK", legs |-> <<currentLink[1].leg>>]
            ELSE IF fuel = 0 THEN [end |-> "HANG", legs |-> <<>>]
                 ELSE LET rest == BackLegs(currentLink[1].prevStopId, fuel - 1)
                      IN [end |-> rest.end, legs |-> <<currentLink[1].leg>> \o rest.legs]

Reverse(s) == [i \in 1..Len(s) |-> s[Len(s) + 1 - i]]

\* FinalWalkLeg with the walk ending at the final stop's own coordinates
\* (toCoords built from finalStop instead of endCoords).
FinalWalkLegToStop(stopId) ==
    LET finalStop == getStop(stopId)[1]
        finalLegArrivalTime == backLink[stopId][1].leg.endTime
    IN [type |-> "WALK",
        fromStopId |-> stopId,
        fromCoords |-> Some([lat |-> finalStop.stop_lat, lon |-> finalStop.stop_lon]),
        toStopId |-> NoStop,
        toCoords |-> Some([lat |-> finalStop.stop_lat, lon |-> finalStop.stop_lon]),
        startTime |-> finalLegArrivalTime,
        endTime |-> finalLegArrivalTime,
        duration |-> 0,
        distance |-> Some(0),
        tripId |-> NoTrip]

\* The final WALK leg from the final stop to the end coordinates.
FinalWalkLeg(stopId) ==
    LET finalStop == getStop(stopId)[1]
        finalDistance == calculateDistance(finalStop.stop_lat, finalStop.stop_lon,
                                           query.endCoords.lat, query.endCoords.lon)
        finalWalkTime == WalkTime(finalDistance)
        finalLegArrivalTime == backLink[stopId][1].leg.endTime
    IN [type |-> "WALK",
        fromStopId |-> stopId,
        fromCoords |-> Some([lat |-> finalStop.stop_lat, lon |-> finalStop.stop_lon]),
        toStopId |-> NoStop,
        toCoords |-> Some(query.endCoords),
        startTime |-> finalLegArrivalTime,
        endTime |-> finalLegArrivalTime + finalWalkTime,
        duration |-> finalWalkTime,
        distance |-> Some(finalDistance),
        tripId |-> NoTrip]

\* reconstructPath(backLink, finalStopId, endCoords): [end, legs,
\* totalDuration]; end is OK when it returns.
reconstructPath(stopId) ==
    IF getStop(stopId) = None \/ backLink[stopId] = None
    THEN [end |-> "THROWN", legs |-> <<>>, totalDuration |-> 0]
    ELSE LET back == BackLegs(stopId, Cardinality(StopIds))
             reversedLegs == Reverse(<<FinalWalkLeg(stopId)>> \o back.legs)
         IN IF back.end # "OK"
            THEN [end |-> back.end, legs |-> <<>>, totalDuration |-> 0]
            ELSE [end |-> "OK",
                  legs |-> reversedLegs,
                  totalDuration |->
                      reversedLegs[Len(reversedLegs)].endTime - reversedLegs[1].startTime]

\* What a call returns: status, path and stats (duration and calcTime, each
\* None when stats does not have it).
NoResult == [status |-> "PENDING", path |-> <<>>, duration |-> None, calcTime |-> None]

Outcome(status) == [status |-> status, path |-> <<>>, duration |-> None, calcTime |-> None]

\* Date.now() - startTime: the milliseconds a call took on the wall clock.
CalcTimes == {0, 1}

(***************************************************************************)
(* Actions: one call of findItinerary on the loaded catalog.               *)
(*   pc = "start"   the call has not begun                                 *)
(*   pc = "search"  at the head of the while loop                          *)
(*   pc = "finish"  the loop was left by break                             *)
(*   pc = "done"    the call has ended; result.status is the status      *)
(*                  returned, or THROWN when the promise is rejected by an *)
(*                  exception, or HANG when reconstructPath never returns  *)
(***************************************************************************)
\* Lines 573-627: service, start stops, end stops, initial frontier.
Begin ==
    /\ pc = "start"
    /\ serviceId' = getServiceId(query.date)
    /\ LET startStops == findStopsWithinRadius(query.startCoords, MAX_WALK_METERS)
           endStops == findStopsWithinRadius(query.endCoords, MAX_WALK_METERS)
           S == InitFrontier([pq |-> <<>>, minArrivalTime |-> minArrivalTime,
                              backLink |-> backLink, thrown |-> FALSE], startStops)
       IN IF serviceId' = None
          THEN /\ pc' = "done"
               /\ result' = Outcome("NO_SERVICE")
               /\ UNCHANGED <<pq, minArrivalTime, backLink>>
          ELSE IF Len(startStops) = 0
          THEN /\ pc' = "done"
               /\ result' = Outcome("NO_START_STOPS")
               /\ UNCHANGED <<pq, minArrivalTime, backLink>>
          ELSE IF Len(endStops) = 0
          THEN /\ pc' = "done"
               /\ result' = Outcome("NO_END_STOPS")
               /\ UNCHANGED <<pq, minArrivalTime, backLink>>
          ELSE /\ pc' = "search"
               /\ pq' = S.pq
               /\ minArrivalTime' = S.minArrivalTime
               /\ backLink' = S.backLink
               /\ UNCHANGED result
    /\ UNCHANGED <<feed, transferMap, query, finalStopId, expanded, outsidePlanner>>

\* Lines 633-723: one iteration of the while loop.
\* expanded holds the pairs <<stop, time>> for which the body went past the
\* two tests of lines 638 and 643 into the expansions of line 648.
Iterate ==
    /\ pc = "search"
    /\ pq # <<>>
    /\ Len(pq) <= MaxQueue
    /\ LET currentLeg == Head(pq)[1]
           currentArrivalTime == Head(pq)[2]
           currentStopId == currentLeg.toStopId
           S == Expand([pq |-> Tail(pq), minArrivalTime |-> minArrivalTime,
                        backLink |-> backLink, thrown |-> FALSE],
                       currentStopId, currentArrivalTime, serviceId[1])
       IN IF IsStale(currentArrivalTime, minArrivalTime[currentStopId])
          THEN /\ pq' = Tail(pq)
               /\ UNCHANGED <<pc, minArrivalTime, backLink, finalStopId, result, expanded>>
          ELSE IF currentStopId \in endStopIds
          THEN /\ finalStopId' = currentStopId
               /\ pq' = Tail(pq)
               /\ pc' = "finish"
               /\ UNCHANGED <<minArrivalTime, backLink, result, expanded>>
          ELSE IF S.thrown
          THEN /\ pc' = "done"
               /\ result' = Outcome("THROWN")
               /\ pq' = Tail(pq)
               /\ expanded' = expanded \cup {<<currentStopId, currentArrivalTime>>}
               /\ UNCHANGED <<minArrivalTime, backLink, finalStopId>>
          ELSE /\ pq' = S.pq
               /\ minArrivalTime' = S.minArrivalTime
               /\ backLink' = S.backLink
               /\ expanded' = expanded \cup {<<currentStopId, currentArrivalTime>>}
               /\ UNCHANGED <<pc, finalStopId, result>>
    /\ UNCHANGED <<feed, transferMap, query, serviceId, outsidePlanner>>

\* Lines 725-735: after the loop (left by break, or the queue is empty).
Finish ==
    /\ pc = "finish" \/ (pc = "search" /\ pq = <<>>)
    /\ \E calcTime \in CalcTimes :
          LET path == reconstructPath(finalStopId)
          IN IF finalStopId # NoStop
             THEN IF path.end = "OK"
                  THEN result' = [status |-> "OK", path |-> path.legs,
                                  duration |-> Some(path.totalDuration),
                                  calcTime |-> Some(calcTime)]
                  ELSE result' = Outcome(path.end)
             ELSE result' = [Outcome("NO_PATH_FOUND") EXCEPT !.calcTime = Some(calcTime)]
    /\ pc' = "done"
    /\ UNCHANGED <<feed, transferMap, query, serviceId, pq, minArrivalTime, backLink,
                   finalStopId, expanded, outsidePlanner>>

Next == Begin \/ Iterate \/ Finish

\* The labels of the call before, kept for the next call.
MapOfCallBefore == minArrivalTime

\* new Map(): the labels of a call, none set.
NewMap == [s \in StopIds |-> None]

\* A second call of findItinerary with the arguments of the first, once the
\* first has returned or thrown: the outcome of the first is kept aside and
\* the call starts with its own queue and maps.
CallAgain ==
    /\ pc = "done"
    /\ result.status # "HANG"
    /\ previous = None
    /\ previous' = Some(result)
    /\ pc' = "start"
    /\ serviceId' = None
    /\ pq' = <<>>
    /\ minArrivalTime' = NewMap
    /\ backLink' = [s \in StopIds |-> None]
    /\ finalStopId' = NoStop
    /\ result' = NoResult
    /\ expanded' = {}
    /\ UNCHANGED <<feed, transferMap, query, liveVars, popup, app>>

NextTwice == Begin \/ Iterate \/ Finish \/ CallAgain

\* A second call of findItinerary with the start and end coordinates of the
\* first exchanged and the same departure, once the first has returned or
\* thrown; the outcome of the first is kept aside.
CallReversed ==
    /\ pc = "done"
    /\ result.status # "HANG"
    /\ previous = None
    /\ previous' = Some(result)
    /\ query' = [query EXCEPT !.startCoords = query.endCoords,
                              !.endCoords = query.startCoords]
    /\ pc' = "start"
    /\ serviceId' = None
    /\ pq' = <<>>
    /\ minArrivalTime' = NewMap
    /\ backLink' = [s \in StopIds |-> None]
    /\ finalStopId' = NoStop
    /\ result' = NoResult
    /\ expanded' = {}
    /\ UNCHANGED <<feed, transferMap, liveVars, popup, app>>

NextReversed == Begin \/ Iterate \/ Finish \/ CallReversed

(***************************************************************************)
(* Catalogs and queries of the bounded model.                              *)
(***************************************************************************)
StopRow(id, pos, parent, type) ==
    [stop_id |-> id, stop_lat |-> pos, stop_lon |-> 0,
     parent_station |-> parent, location_type |-> type]

\* stops.txt: three stops on the line. S1 is at the origin; the others are
\* next to it, or out of walking range of it and within or out of walking
\* range of each other; one table has a station with a platform as its child.
StopTables ==
    { <<StopRow("S1", 0, "", "0"), StopRow("S2", 1, "", "0"), StopRow("S3", 600, "", "0")>>,
      <<StopRow("S1", 0, "", "0"), StopRow("S2", 600, "", "0"), StopRow("S3", 603, "", "0")>>,
      <<StopRow("S1", 0, "", "0"), StopRow("S2", 600, "", "0"), StopRow("S3", 1003, "", "0")>>,
      <<StopRow("S1", 0, "", "1"), StopRow("S2", 1, "S1", "0"), StopRow("S3", 600, "", "0")>> }

StopNames == {"S1", "S2", "S3"}

Times == 0..MaxTime

Clock(t) == <<0, 0, t>>

\* One row of stop_times.txt of a trip under construction.
Call(stopId, arrival, departure) ==
    [stop_id |-> stopId, arrival_time |-> Clock(arrival), departure_time |-> Clock(departure)]

\* The time-monotone stop sequences of two calls.
TwoCalls ==
    { <<Call(a, t1, t1), Call(b, t2, t2)>> :
        <<a, b, t1, t2>> \in {x \in StopNames \X StopNames \X Times \X Times :
                                 x[1] # x[2] /\ x[3] <= x[4]} }

\* A vehicle dwells this long at an intermediate stop.
Dwells == {0, 1}

\* The time-monotone stop sequences of three calls; the vehicle may dwell at
\* the middle one, and may come back to its first stop.
ThreeCalls ==
    { <<Call(x[1], x[4], x[4]), Call(x[2], x[5], x[5] + x[7]), Call(x[3], x[6], x[6])>> :
        x \in {y \in StopNames \X StopNames \X StopNames \X Times \X Times \X Times
                       \X Dwells :
                 /\ y[1] # y[2] /\ y[2] # y[3]
                 /\ y[4] <= y[5] /\ y[5] + y[7] <= y[6]} }

\* The rows of stop_times.txt of one trip.
StopTimeRows(tripId, calls) ==
    [i \in 1..Len(calls) |->
        [trip_id |-> tripId, stop_sequence |-> i, stop_id |-> calls[i].stop_id,
         arrival_time |-> calls[i].arrival_time,
         departure_time |-> calls[i].departure_time]]

TripRow(tripId, service) == [trip_id |-> tripId, route_id |-> "R1", service_id |-> service]

AllDays == Range(DayNames)

\* The query date: a friday inside the calendar's window.
Friday == [ymd |-> 20240105, day |-> 5]

\* calendar.txt of the planner catalogs: service s1 runs every day.
EveryDay == <<[service_id |-> "s1", days |-> AllDays,
               start_date |-> 20240101, end_date |-> 20241231]>>

\* The second trip of a catalog: absent, or two calls ending at S3 on a trip
\* that runs (s1); one from S1 may also not run (s2) or have no row in
\* trips.txt (unknown).
SecondTrips ==
    {[calls |-> <<>>, service |-> "s1"]}
    \cup {[calls |-> c, service |-> "s1"] : c \in {x \in TwoCalls : x[2].stop_id = "S3"}}
    \cup {[calls |-> c, service |-> v] :
             c \in {x \in TwoCalls : x[1].stop_id = "S1" /\ x[2].stop_id = "S3"},
             v \in {"s2", "unknown"}}

Tables(stops, calls1, second, calendar, calendarDates) ==
    [routes |-> <<[route_id |-> "R1", route_short_name |-> "1", route_color |-> "FF0000",
                   route_text_color |-> "FFFFFF"]>>,
     geoJson |-> None,
     stops |-> stops,
     trips |-> <<TripRow("T1", "s1")>>
               \o (IF second.calls # <<>> /\ second.service # "unknown"
                   THEN <<TripRow("T2", second.service)>> ELSE <<>>),
     stopTimes |-> StopTimeRows("T1", calls1) \o StopTimeRows("T2", second.calls),
     calendar |-> calendar,
     calendarDates |-> calendarDates]

\* The queries <<from, to, departure>>: from the origin to one of two far
\* points (the second in walking range of S3 of the third table only), at
\* midnight and one second later, and one query from a point out of walking
\* range of every stop.
Queries == ({0} \X {603, 1500} \X {0, 1}) \cup {<<2000, 603, 0>>}

\* The seven loads of loadAllData.
GTFSFiles == {"routes.txt", "trips.txt", "stop_times.txt", "stops.txt", "calendar.txt",
              "calendar_dates.txt"}

Loads == GTFSFiles \cup {"map.geojson"}

\* The application after initializeApp over a catalog that loaded: the
\* loads are settled, loadAllData returned true, the components are
\* constructed and the status line says the data is loaded.
Started ==
    [pc |-> "started", files |-> [f \in Loads |-> "ok"], pending |-> {},
     rejected |-> FALSE, returned |-> Some(TRUE), errorShown |-> FALSE,
     constructed |-> TRUE, dataStatus |-> "loaded"]

\* The live map before its first update.
InitLive ==
    /\ timeInfo = None
    /\ activeBuses = <<>>
    /\ busesWithPositions = <<>>
    /\ popup = None
    /\ app = Started
    /\ clock = None
    /\ isPlannerMode = FALSE
    /\ visibleRoutes = {feed.routes[i].route_id : i \in 1..Len(feed.routes)}
    /\ busMarkers = <<>>
    /\ clusterGroup = EmptyBag
    /\ clusterShown = TRUE
    /\ itineraryLayer = <<>>

\* The LocalPathfinder constructed over the loaded catalog, before a call.
InitSearch ==
    /\ transferMap = prebuildTransferMap(feed.masterStops)
    /\ pc = "start"
    /\ serviceId = None
    /\ pq = <<>>
    /\ minArrivalTime = [s \in StopIds |-> None]
    /\ backLink = [s \in StopIds |-> None]
    /\ finalStopId = NoStop
    /\ result = NoResult
    /\ expanded = {}
    /\ previous = None

Init ==
    /\ \E stops \in StopTables, calls1 \in TwoCalls \cup ThreeCalls, second \in SecondTrips :
          feed = loadAllData(Tables(stops, calls1, second, EveryDay, <<>>))
    /\ \E q \in Queries :
          query = [startCoords |-> Coords(q[1]), endCoords |-> Coords(q[2]),
                   departure |-> Clock(q[3]), date |-> Friday]
    /\ InitSearch
    /\ InitLive

Spec == Init /\ [][Next]_vars

(***************************************************************************)
(* Reference semantics the claims are stated against: the journeys that    *)
(* are feasible in the catalog, independent of the search.                 *)
(***************************************************************************)
MinOf(S) == CHOOSE x \in S : \A y \in S : x <= y

Returned == pc = "done" /\ result.status = "OK"

\* calendar_dates.txt has an exception of this type for the service on the
\* query date.
HasException(service, type) ==
    \E d \in Range(feed.calendarDates) :
        d.service_id = service /\ d.date = query.date.ymd /\ d.exception_type = type

\* calendar.txt has a rule of the service whose window holds the query date
\* and whose weekday flag is set.
HasRule(service) ==
    \E r \in Range(feed.calendar) :
        /\ r.service_id = service
        /\ DayNames[query.date.day + 1] \in r.days
        /\ r.start_date <= query.date.ymd /\ query.date.ymd <= r.end_date

ServiceIds ==
    {r.service_id : r \in Range(feed.calendar)}
    \cup {d.service_id : d \in Range(feed.calendarDates)}

\* The services active on the query date: added by an exception, or not
\* removed by one and running by a rule.
ActiveServices ==
    {s \in ServiceIds : HasException(s, "1") \/ (~HasException(s, "2") /\ HasRule(s))}

\* The rides a traveller can take: board row st of a known trip of the
\* active service, leave at a later row of the same trip.
Rides ==
    {r \in Range(feed.stopTimes) \X Range(feed.stopTimes) :
        /\ r[1].trip_id = r[2].trip_id
        /\ r[1].stop_sequence < r[2].stop_sequence
        /\ TripById(r[1].trip_id) # None
        /\ TripById(r[1].trip_id)[1].service_id \in ActiveServices}

\* Arrival times: labels[s] is a set of times at which stop s can be reached.
\* One more leg from the earliest known arrivals.
OneMoreLeg(labels) ==
    [s \in StopIds |->
        labels[s]
        \cup {timeToSeconds(r[2].arrival_time) :
                r \in {x \in Rides :
                         /\ x[2].stop_id = s
                         /\ labels[x[1].stop_id] # {}
                         /\ timeToSeconds(x[1].departure_time) >= MinOf(labels[x[1].stop_id])}}
        \cup UNION {{MinOf(labels[a]) + tr.walkTime :
                        tr \in {x \in Range(Transfers(a)) : x.toStopId = s}} :
                    a \in {x \in StopIds : labels[x] # {}}}]

RECURSIVE Legs(_, _)
Legs(labels, rounds) == IF rounds = 0 THEN labels ELSE Legs(OneMoreLeg(labels), rounds - 1)

\* The access walks: the master stops within MAX_WALK_METERS of the start.
AccessArrivals ==
    [s \in StopIds |->
        {departureTimeSeconds + WalkTime(e.distance) :
            e \in {x \in Range(findStopsWithinRadius(query.startCoords, MAX_WALK_METERS)) :
                     x.stop.stop_id = s}}]

\* The times at which each stop can be reached by a feasible journey (an
\* earliest journey visits no stop twice, so one round per stop is enough).
FeasibleArrivals == Legs(AccessArrivals, Cardinality(StopIds))

\* The earliest feasible arrival at the end coordinates, egress walk
\* included, as a set: empty when no end stop can be reached.
FeasibleEndArrivals ==
    LET reach == FeasibleArrivals
    IN {MinOf(reach[e.stop.stop_id]) + WalkTime(e.distance) :
          e \in {x \in Range(findStopsWithinRadius(query.endCoords, MAX_WALK_METERS)) :
                   reach[x.stop.stop_id] # {}}}

\* Every row of stop_times.txt names a trip of trips.txt and a stop of
\* stops.txt.
ConsistentCatalog ==
    \A st \in Range(feed.stopTimes) : TripById(st.trip_id) # None /\ getStop(st.stop_id) # None

LastLeg == result.path[Len(result.path)]

(***************************************************************************)
(* Claims.                                                                 *)
(***************************************************************************)
\* C1: when findItinerary returns OK, the endTime of the last (egress) leg is
\* the minimum arrival time at the end coordinates over all feasible journeys
\* (access walk, rides of the active service boarded at a departure >= the
\* arrival at the stop, index transfers, egress walk included).
C1_EarliestArrival ==
    Returned => LastLeg.endTime = MinOf(FeasibleEndArrivals)

\* C2: when findItinerary returns OK, the arrival time at the final stop (the
\* start of the egress leg) is <= the earliest feasible arrival time at every
\* stop within MAX_WALK_METERS of the end coordinates, at every departure
\* time including second 0.
C2_FinalStopEarliest ==
    Returned =>
        LET reach == FeasibleArrivals
        IN \A e \in endStopIds : reach[e] # {} => LastLeg.startTime <= MinOf(reach[e])

\* C3: in every path returned with status OK, each leg ends no later than the
\* next one starts.
C3_LegChain ==
    Returned =>
        \A i \in 1..(Len(result.path) - 1) :
            result.path[i].endTime <= result.path[i + 1].startTime

\* C4 (witness): a returned path of an access walk, a bus ride, a walk
\* transfer between two stops and an egress walk.
C4_Witness ==
    /\ Returned
    /\ Len(result.path) = 4
    /\ result.path[2].type = "BUS"
    /\ result.path[3].type = "WALK"

\* C4: every path returned with status OK is non-empty; its first leg is a
\* WALK from the query's start coordinates starting at the departure second;
\* its last leg is a WALK to the query's end coordinates; every leg in between
\* is a BUS leg or a WALK between two stops.
C4_PathShape ==
    Returned =>
        /\ Len(result.path) >= 1
        /\ result.path[1].type = "WALK"
        /\ result.path[1].fromCoords = Some(query.startCoords)
        /\ result.path[1].startTime = departureTimeSeconds
        /\ LastLeg.type = "WALK"
        /\ LastLeg.toCoords = Some(query.endCoords)
        /\ \A i \in 2..(Len(result.path) - 1) :
              \/ result.path[i].type = "BUS"
              \/ /\ result.path[i].type = "WALK"
                 /\ result.path[i].fromStopId # NoStop
                 /\ result.path[i].toStopId # NoStop

\* A BUS leg is a ride: boarded at a row of its trip at fromStopId at that
\* row's departure time, left at a later row of the trip at toStopId at that
\* row's arrival time, on a trip of the active service.
IsRide(leg) ==
    \E r \in Rides :
        /\ r[1].trip_id = leg.tripId
        /\ r[1].stop_id = leg.fromStopId
        /\ timeToSeconds(r[1].departure_time) = leg.startTime
        /\ r[2].stop_id = leg.toStopId
        /\ timeToSeconds(r[2].arrival_time) = leg.endTime

\* C5 (witness): a returned path with a BUS leg boarded where the vehicle
\* dwells (arrival before departure), in a catalog with a trip that does not
\* run.
C5_Witness ==
    /\ Returned
    /\ \E i \in 1..Len(result.path) :
          /\ result.path[i].type = "BUS"
          /\ \E st \in Range(feed.stopTimes) :
                /\ st.trip_id = result.path[i].tripId
                /\ st.stop_id = result.path[i].fromStopId
                /\ timeToSeconds(st.arrival_time) < timeToSeconds(st.departure_time)

\* C5: every BUS leg of every returned path is on a trip of the service active
\* on the departure date, starts at the departure time of a stop_time of that
\* trip at fromStopId and ends at the arrival time of a stop_time of the same
\* trip at toStopId with a strictly greater stop_sequence.
C5_BusLegsAreRides ==
    Returned =>
        \A i \in 1..Len(result.path) :
            result.path[i].type = "BUS" => IsRide(result.path[i])

ChecksPassed ==
    /\ pc = "done"
    /\ result.status \notin {"NO_SERVICE", "NO_START_STOPS", "NO_END_STOPS"}

\* C8: once the service, start-stop and end-stop checks have passed,
\* findItinerary returns OK if some stop within MAX_WALK_METERS of the end is
\* reachable from a start stop through boardable rides and index transfers, and
\* returns NO_PATH_FOUND with an empty path exactly when the queue empties
\* without such a stop having been dequeued.
C8_OkIfReachable ==
    (ChecksPassed /\ ConsistentCatalog) =>
        /\ FeasibleEndArrivals # {} => result.status = "OK"
        /\ result.status = "NO_PATH_FOUND" <=> (pq = <<>> /\ finalStopId = NoStop)
        /\ result.status = "NO_PATH_FOUND" => result.path = <<>>

\* C9: a query never ends in an exception: when the search meets an
\* inconsistent catalog entry (a stop_time whose trip_id is unknown),
\* findItinerary still resolves to an outcome value instead of throwing.
C9_NeverThrows ==
    pc = "done" => result.status # "THROWN"

MasterIds == {s.stop_id : s \in Range(feed.masterStops)}

\* children_of_master: the child list of a master stop.
ChildrenOf(masterId) ==
    IF masterId \in DOMAIN feed.groupedStopMap
    THEN Range(feed.groupedStopMap[masterId]) ELSE {}

\* The master stop a stop id belongs to.
MasterOf(stopId) == IF getStop(stopId) = None THEN stopId ELSE GroupKey(getStop(stopId)[1])

\* The entry at the head of the queue is current: the loop does not skip it.
HeadIsCurrent ==
    /\ pc = "search" /\ pq # <<>> /\ Len(pq) <= MaxQueue
    /\ ~IsStale(Head(pq)[2], minArrivalTime[Head(pq)[1].toStopId])

\* C10: the planner reasons over master stops. When a state at master stop M
\* is expanded, every boardable event at every child stop of M is considered
\* (afterwards each later stop of its trip has a label no later than the
\* arrival there); and an arrival at a child stop of a master within walking
\* range of the end passes the destination test.
C10_MasterUnion ==
    [][ HeadIsCurrent =>
          LET currentStopId == Head(pq)[1].toStopId
              currentArrivalTime == Head(pq)[2]
          IN /\ MasterOf(currentStopId) \in endStopIds => pc' = "finish"
             /\ (currentStopId \in MasterIds /\ pc' = "search") =>
                   \A r \in Rides :
                       (/\ r[1].stop_id \in ChildrenOf(currentStopId)
                        /\ timeToSeconds(r[1].departure_time) >= currentArrivalTime)
                       => /\ minArrivalTime'[r[2].stop_id] # None
                          /\ minArrivalTime'[r[2].stop_id][1]
                                <= timeToSeconds(r[2].arrival_time) ]_vars

\* The queries that do not depart at second 0 of the day.
InitDaytime == Init /\ departureTimeSeconds >= 1

SpecDaytime == InitDaytime /\ [][Next]_vars

(***************************************************************************)
(* Catalogs whose calendar varies: two services, up to two rules of        *)
(* calendar.txt and up to two exceptions of calendar_dates.txt.            *)
(***************************************************************************)
Services == {"s1", "s2"}

\* A rule runs every day or on mondays only, in a window that holds the
\* query date or in the year before.
RuleRows ==
    { [service_id |-> x[1], days |-> x[2], start_date |-> x[3][1], end_date |-> x[3][2]] :
        x \in Services \X {AllDays, {"monday"}}
                       \X {<<20240101, 20241231>>, <<20230101, 20231231>>} }

\* calendar.txt: service_id is its key.
Calendars ==
    {<<>>} \cup {<<r>> : r \in RuleRows}
    \cup {<<x[1], x[2]>> : x \in {y \in RuleRows \X RuleRows :
                                     y[1].service_id # y[2].service_id}}

\* An exception adds ("1") or removes ("2") a service on the query date or
\* on the day after.
ExceptionRows ==
    { [service_id |-> x[1], date |-> x[2], exception_type |-> x[3]] :
        x \in Services \X {20240105, 20240106} \X {"1", "2"} }

\* calendar_dates.txt: (service_id, date) is its key.
CalendarDateTables ==
    {<<>>} \cup {<<d>> : d \in ExceptionRows}
    \cup {<<x[1], x[2]>> : x \in {y \in ExceptionRows \X ExceptionRows :
                                     y[1].service_id # y[2].service_id
                                     \/ y[1].date # y[2].date}}

\* Trip T1 of service s1 and trip T2 of service s2, both from S1 to S3.
InitCalendar ==
    /\ \E calendar \in Calendars, calendarDates \in CalendarDateTables :
          feed = loadAllData(Tables(
                    <<StopRow("S1", 0, "", "0"), StopRow("S2", 1, "", "0"),
                      StopRow("S3", 600, "", "0")>>,
                    <<Call("S1", 1, 1), Call("S3", 2, 2)>>,
                    [calls |-> <<Call("S1", 1, 1), Call("S3", 1, 1)>>, service |-> "s2"],
                    calendar, calendarDates))
    /\ \E q \in Queries :
          query = [startCoords |-> Coords(q[1]), endCoords |-> Coords(q[2]),
                   departure |-> Clock(q[3]), date |-> Friday]
    /\ InitSearch
    /\ InitLive

SpecCalendar == InitCalendar /\ [][Next]_vars

\* C6: a service is active on a date iff calendar_dates.txt adds it on that
\* date, or calendar_dates.txt does not remove it on that date and a rule of
\* calendar.txt for it covers the date with the weekday flag set; several
\* services can be active at once. The services the planner takes as active
\* for the query date are exactly those.
C6_ActiveServices ==
    pc # "start" => {s \in ServiceIds : serviceId = Some(s)} = ActiveServices

\* C7: findItinerary returns NO_SERVICE if and only if no service is active
\* on the departure date.
C7_NoServiceIff ==
    pc = "done" => (result.status = "NO_SERVICE" <=> ActiveServices = {})

(***************************************************************************)
(* Queries whose end is within walking range of the start.                 *)
(***************************************************************************)
\* From the origin to a point 200 m away at midnight and one second later,
\* and a walk of 200 m that starts 100 m from the nearest stop.
WalkQueries == {<<0, 200, 0>>, <<0, 200, 1>>, <<100, 300, 1>>}

InitWalk ==
    /\ \E stops \in StopTables, calls1 \in TwoCalls :
          feed = loadAllData(Tables(stops, calls1, [calls |-> <<>>, service |-> "s1"],
                                    EveryDay, <<>>))
    /\ \E q \in WalkQueries :
          query = [startCoords |-> Coords(q[1]), endCoords |-> Coords(q[2]),
                   departure |-> Clock(q[3]), date |-> Friday]
    /\ InitSearch
    /\ InitLive

SpecWalk == InitWalk /\ [][Next]_vars

\* The distance of the direct walk from the start to the end coordinates.
DirectDistance ==
    calculateDistance(query.startCoords.lat, query.startCoords.lon,
                      query.endCoords.lat, query.endCoords.lon)

\* No journey through the network reaches the end coordinates earlier than
\* the direct walk.
NoTripBeatsWalking ==
    \A a \in FeasibleEndArrivals : a >= departureTimeSeconds + WalkTime(DirectDistance)

\* C11: when the end is within MAX_WALK_METERS of the start and no trip
\* reaches it earlier than walking directly, findItinerary returns OK with a
\* single WALK leg from the start to the end coordinates whose duration is
\* ceil(distance / WALK_SPEED_MPS).
C11_WalkOnly ==
    (pc = "done" /\ DirectDistance <= MAX_WALK_METERS /\ NoTripBeatsWalking) =>
        /\ result.status = "OK"
        /\ Len(result.path) = 1
        /\ result.path[1].type = "WALK"
        /\ result.path[1].fromCoords = Some(query.startCoords)
        /\ result.path[1].toCoords = Some(query.endCoords)
        /\ result.path[1].duration = WalkTime(DirectDistance)

(***************************************************************************)
(* The live map: DataManager.getActiveTrips, TripScheduler and the update  *)
(* of main.js.                                                             *)
(***************************************************************************)
\* getActiveTrips without the test of the trip's service.
getActiveTripsOfAnyService(currentSeconds, date) ==
    LET inWindow(trip) ==
            LET stopTimes == getStopTimes(trip.trip_id)
            IN /\ Len(stopTimes) >= 2
               /\ currentSeconds >= timeToSeconds(stopTimes[1].departure_time)
               /\ currentSeconds <= timeToSeconds(stopTimes[Len(stopTimes)].arrival_time)
        kept == FilterSeq(feed.trips,
                          {trip \in Range(feed.trips) :
                              getServiceId(date) # None /\ inWindow(trip)})
    IN [i \in 1..Len(kept) |->
          [tripId |-> kept[i].trip_id, trip |-> kept[i],
           stopTimes |-> getStopTimes(kept[i].trip_id)]]

\* DataManager.getActiveTrips(currentSeconds, date): the trips of the
\* service of the date that have at least two stop_times and whose window
\* [first departure, last arrival] holds currentSeconds, in the order of
\* trips.txt.
getActiveTrips(currentSeconds, date) ==
    LET service == getServiceId(date)
        inWindow(trip) ==
            LET stopTimes == getStopTimes(trip.trip_id)
            IN /\ Len(stopTimes) >= 2
               /\ currentSeconds >= timeToSeconds(stopTimes[1].departure_time)
               /\ currentSeconds <= timeToSeconds(stopTimes[Len(stopTimes)].arrival_time)
        kept == FilterSeq(feed.trips,
                          {trip \in Range(feed.trips) :
                              /\ service # None
                              /\ trip.service_id = service[1]
                              /\ inWindow(trip)})
    IN [i \in 1..Len(kept) |->
          [tripId |-> kept[i].trip_id, trip |-> kept[i],
           stopTimes |-> getStopTimes(kept[i].trip_id)]]

\* calculateProgress(departureTime, arrivalTime, currentTime): a fraction
\* <<numerator, denominator>> in 0..1.
calculateProgress(departureTime, arrivalTime, currentTime) ==
    LET totalDuration == arrivalTime - departureTime
        elapsed == currentTime - departureTime
    IN IF totalDuration <= 0 THEN <<0, 1>>
       ELSE IF elapsed <= 0 THEN <<0, 1>>
       ELSE IF elapsed >= totalDuration THEN <<1, 1>>
       ELSE <<elapsed, totalDuration>>

\* The state waiting_at_stop at the stop of row st, or None (null) when the
\* stop is unknown.
WaitingState(st) ==
    LET stopInfo == getStop(st.stop_id)
    IN IF stopInfo = None THEN None
       ELSE Some([type |-> "waiting_at_stop",
                  position |-> Some([lat |-> stopInfo[1].stop_lat, lon |-> stopInfo[1].stop_lon]),
                  fromStopId |-> NoStop,
                  toStopId |-> NoStop,
                  departureTime |-> None,
                  arrivalTime |-> None,
                  stopInfo |-> stopInfo[1],
                  nextDepartureTime |-> Some(timeToSeconds(st.departure_time)),
                  progress |-> None])

\* The state moving from the stop of row prev to the stop of row current, or
\* None (null) when one of the stops is unknown.
MovingState(prev, current, currentSeconds) ==
    IF getStop(prev.stop_id) = None \/ getStop(current.stop_id) = None THEN None
    ELSE Some([type |-> "moving",
               position |-> None,
               fromStopId |-> prev.stop_id,
               toStopId |-> current.stop_id,
               departureTime |-> Some(timeToSeconds(prev.departure_time)),
               arrivalTime |-> Some(timeToSeconds(current.arrival_time)),
               nextDepartureTime |-> None,
               progress |-> Some(calculateProgress(timeToSeconds(prev.departure_time),
                                                   timeToSeconds(current.arrival_time),
                                                   currentSeconds))])

\* StateFrom with the dwell test taking the second of arrival
\* (currentSeconds >= arrivalTime).
RECURSIVE StateFromDwellAtArrival(_, _, _)
StateFromDwellAtArrival(stopTimes, i, currentSeconds) ==
    IF i > Len(stopTimes) THEN None
    ELSE LET arrivalTime == timeToSeconds(stopTimes[i].arrival_time)
             departureTime == timeToSeconds(stopTimes[i].departure_time)
             prevDepartureTime == timeToSeconds(stopTimes[i - 1].departure_time)
         IN IF currentSeconds >= arrivalTime /\ currentSeconds <= departureTime
            THEN WaitingState(stopTimes[i])
            ELSE IF currentSeconds > prevDepartureTime /\ currentSeconds <= arrivalTime
            THEN MovingState(stopTimes[i - 1], stopTimes[i], currentSeconds)
            ELSE StateFromDwellAtArrival(stopTimes, i + 1, currentSeconds)

\* findCurrentState, case 2: the loop over the rows from index i (the first
\* row is index 1): waiting at the row's stop is tested before moving
\* towards it.
RECURSIVE StateFrom(_, _, _)
StateFrom(stopTimes, i, currentSeconds) ==
    IF i > Len(stopTimes) THEN None
    ELSE LET arrivalTime == timeToSeconds(stopTimes[i].arrival_time)
             departureTime == timeToSeconds(stopTimes[i].departure_time)
             prevDepartureTime == timeToSeconds(stopTimes[i - 1].departure_time)
         IN IF currentSeconds > arrivalTime /\ currentSeconds <= departureTime
            THEN WaitingState(stopTimes[i])
            ELSE IF currentSeconds > prevDepartureTime /\ currentSeconds <= arrivalTime
            THEN MovingState(stopTimes[i - 1], stopTimes[i], currentSeconds)
            ELSE StateFrom(stopTimes, i + 1, currentSeconds)

\* findCurrentState with the dwell at the first stop starting one second after
\* the arrival (currentSeconds > firstArrivalTime), as at the other stops.
findCurrentStateAfterFirstArrival(stopTimes, currentSeconds) ==
    IF Len(stopTimes) = 0 THEN None
    ELSE IF /\ currentSeconds > timeToSeconds(stopTimes[1].arrival_time)
            /\ currentSeconds <= timeToSeconds(stopTimes[1].departure_time)
         THEN WaitingState(stopTimes[1])
         ELSE StateFrom(stopTimes, 2, currentSeconds)

\* findCurrentState(stopTimes, currentSeconds): a state, or None (null).
findCurrentState(stopTimes, currentSeconds) ==
    IF Len(stopTimes) = 0 THEN None
    ELSE IF /\ currentSeconds >= timeToSeconds(stopTimes[1].arrival_time)
            /\ currentSeconds <= timeToSeconds(stopTimes[1].departure_time)
         THEN WaitingState(stopTimes[1])
         ELSE StateFrom(stopTimes, 2, currentSeconds)

\* One entry of activeBuses for a live trip and its state.
ActiveBus(entry, state, currentSeconds) ==
    [tripId |-> entry.tripId,
     route |-> RouteById(entry.trip.route_id),
     segment |-> IF state.type = "moving" THEN Some(state) ELSE None,
     position |-> IF state.type = "waiting_at_stop" THEN state.position ELSE None,
     currentSeconds |-> currentSeconds]

\* TripScheduler.getActiveTrips(currentSeconds, date): one entry per trip of
\* DataManager.getActiveTrips whose state is not null.
TripScheduler_getActiveTrips(currentSeconds, date) ==
    LET activeTrips == getActiveTrips(currentSeconds, date)
        withState == FilterSeq(activeTrips,
                               {e \in Range(activeTrips) :
                                   findCurrentState(e.stopTimes, currentSeconds) # None})
    IN IF ~feed.isLoaded THEN <<>>
       ELSE [i \in 1..Len(withState) |->
               ActiveBus(withState[i],
                         findCurrentState(withState[i].stopTimes, currentSeconds)[1],
                         currentSeconds)]

(***************************************************************************)
(* BusPositionCalculator. A number that need not be whole (a progress, a   *)
(* coordinate) is a fraction <<numerator, denominator>>, denominator > 0.  *)
(* A vertex of a line geometry is <<lon, lat>>.                            *)
(***************************************************************************)
FracEq(a, b) == a[1] * b[2] = b[1] * a[2]

\* dataManager.findNearestPointOnRoute(routeCoordinates, lat, lon): the
\* index of the first vertex nearest to the point, None (null) when there is
\* no vertex.
findNearestPointOnRoute(routeCoordinates, lat, lon) ==
    LET d(i) == calculateDistance(routeCoordinates[i][2], routeCoordinates[i][1], lat, lon)
        nearest == {i \in 1..Len(routeCoordinates) :
                       \A j \in 1..Len(routeCoordinates) : d(i) <= d(j)}
    IN IF Len(routeCoordinates) = 0 THEN None
       ELSE Some(CHOOSE i \in nearest : \A j \in nearest : i <= j)

\* distances[i]: the cumulated length of the path up to its vertex i.
RECURSIVE Cumulated(_, _)
Cumulated(pathSegment, i) ==
    IF i <= 1 THEN 0
    ELSE Cumulated(pathSegment, i - 1)
         + calculateDistance(pathSegment[i - 1][2], pathSegment[i - 1][1],
                             pathSegment[i][2], pathSegment[i][1])

\* Lines 113-124: the point of the segment from vertex p1 to vertex p2 at
\* the fraction segmentProgress.
PointOnSegment(p1, p2, segmentProgress, progress) ==
    [lat |-> <<p1[2] * segmentProgress[2] + (p2[2] - p1[2]) * segmentProgress[1],
               segmentProgress[2]>>,
     lon |-> <<p1[1] * segmentProgress[2] + (p2[1] - p1[1]) * segmentProgress[1],
               segmentProgress[2]>>,
     progress |-> progress]

\* Lines 108-111: how far along the segment from distance d1 to distance d2
\* the target distance target / den lies, a fraction.
SegmentProgress(d1, d2, target, den) ==
    IF d2 - d1 > 0 THEN <<target - d1 * den, (d2 - d1) * den>> ELSE <<0, 1>>

\* Lines 106-130: the point of the path at the distance target / progress[2]
\* from its start: on the first segment that holds the distance, or the last
\* vertex when no segment does.
PointAtDistance(pathSegment, target, progress) ==
    LET within == {i \in 1..(Len(pathSegment) - 1) :
                      /\ target >= Cumulated(pathSegment, i) * progress[2]
                      /\ target <= Cumulated(pathSegment, i + 1) * progress[2]}
        first == CHOOSE k \in within : \A l \in within : k <= l
    IN IF within = {}
       THEN [lat |-> <<pathSegment[Len(pathSegment)][2], 1>>,
             lon |-> <<pathSegment[Len(pathSegment)][1], 1>>,
             progress |-> progress]
       ELSE PointOnSegment(pathSegment[first], pathSegment[first + 1],
                           SegmentProgress(Cumulated(pathSegment, first),
                                           Cumulated(pathSegment, first + 1),
                                           target, progress[2]),
                           progress)

\* Lines 84-103: no point on a path of fewer than two vertices or of length
\* zero; else the point at targetDistance = totalDistance * progress.
PointOfPath(pathSegment, progress) ==
    IF Len(pathSegment) < 2 THEN None
    ELSE IF Cumulated(pathSegment, Len(pathSegment)) = 0 THEN None
    ELSE Some(PointAtDistance(pathSegment,
                              Cumulated(pathSegment, Len(pathSegment)) * progress[1],
                              progress))

\* Lines 67-82: the slice of the line between the two vertices, in the
\* direction of travel.
PathSegment(routeCoordinates, fromIndex, toIndex) ==
    IF fromIndex < toIndex
    THEN SubSeq(routeCoordinates, fromIndex, toIndex)
    ELSE Reverse(SubSeq(routeCoordinates, toIndex, fromIndex))

\* Lines 67-131, given the two indexes.
PointBetween(routeCoordinates, fromIndex, toIndex, progress) ==
    IF fromIndex = None \/ toIndex = None \/ fromIndex = toIndex THEN None
    ELSE PointOfPath(PathSegment(routeCoordinates, fromIndex[1], toIndex[1]), progress)

\* interpolateAlongRoute(routeCoordinates, fromLat, fromLon, toLat, toLon,
\* progress): the point at arc length progress x total length along the
\* slice of the line between the vertices nearest to the two stops, or None
\* (null) when the slice is degenerate.
interpolateAlongRoute(routeCoordinates, fromLat, fromLon, toLat, toLon, progress) ==
    PointBetween(routeCoordinates,
                 findNearestPointOnRoute(routeCoordinates, fromLat, fromLon),
                 findNearestPointOnRoute(routeCoordinates, toLat, toLon),
                 progress)

\* The linear interpolation between the two stops at fraction progress.
LinearPosition(fromLat, fromLon, toLat, toLon, progress) ==
    [lat |-> <<fromLat * progress[2] + (toLat - fromLat) * progress[1], progress[2]>>,
     lon |-> <<fromLon * progress[2] + (toLon - fromLon) * progress[1], progress[2]>>,
     progress |-> progress]

\* routeGeometry.length: the value getRouteGeometry returns is the geometry
\* object of a feature, {type, coordinates}; it has no length property, so
\* the expression is undefined (None) whatever the coordinates are.
GeometryLength(routeGeometry) == None

\* x > 0 for a number or undefined: undefined > 0 is false.
IsPositive(x) == x # None /\ x[1] > 0

\* calculatePosition(segment, routeId) of a moving state whose stops are
\* known: the position along the route's line when the geometry branch is
\* taken and gives one, otherwise the linear interpolation.
calculatePosition(segment, routeId) ==
    LET from == getStop(segment.fromStopId)[1]
        to == getStop(segment.toStopId)[1]
        routeGeometry == IF routeId = None THEN None ELSE getRouteGeometry(routeId[1])
        position == interpolateAlongRoute(routeGeometry[1], from.stop_lat, from.stop_lon,
                                          to.stop_lat, to.stop_lon, segment.progress[1])
    IN IF /\ routeGeometry # None
          /\ IsPositive(GeometryLength(routeGeometry[1]))
          /\ position # None
       THEN position
       ELSE Some(LinearPosition(from.stop_lat, from.stop_lon, to.stop_lat, to.stop_lon,
                                segment.progress[1]))

\* calculateAllPositions(allBuses): each bus with its position, a moving bus
\* by calculatePosition, a waiting bus at the position the scheduler gave;
\* a bus without position is dropped.
calculateAllPositions(allBuses) ==
    LET routeId(bus) == IF bus.route = None THEN None ELSE Some(bus.route[1].route_id)
        position(bus) == IF bus.segment # None
                         THEN calculatePosition(bus.segment[1], routeId(bus))
                         ELSE bus.position
        placed == FilterSeq(allBuses, {bus \in Range(allBuses) : position(bus) # None})
    IN [i \in 1..Len(placed) |-> [placed[i] EXCEPT !.position = position(placed[i])]]

\* The state of one call of findItinerary.
plannerVars == <<query, pc, serviceId, pq, minArrivalTime, backLink, finalStopId, result,
                 expanded>>

\* The times of day of the stop_times of the live catalogs.
LiveTimes == 0..(MaxTime + 1)

\* The seconds at which the map is updated: from before the first departure
\* to after the last arrival.
ClockTimes == 0..(MaxTime + 2)

\* The buses of updateData: those of calculateAllPositions whose route is
\* known and checked in the route filter.
VisibleBuses(allBuses, routes) ==
    LET placed == calculateAllPositions(allBuses)
    IN FilterSeq(placed, {bus \in Range(placed) :
                             bus.route # None /\ bus.route[1].route_id \in routes})

(***************************************************************************)
(* mapRenderer.js: the markers of the buses and their popups.              *)
(***************************************************************************)
\* getTripDestination(stopTimes): the name of the last stop of the trip; a
\* stop is named by its id.
getTripDestination(stopTimes) ==
    IF Len(stopTimes) = 0 \/ getStop(stopTimes[Len(stopTimes)].stop_id) = None
    THEN "Destination inconnue"
    ELSE getStop(stopTimes[Len(stopTimes)].stop_id)[1].stop_id

\* TripScheduler.getTripDestination(stopTimes): the name of the last stop of
\* the trip, or its id when the stop is unknown; a stop is named by its id.
TripScheduler_getTripDestination(stopTimes) ==
    IF Len(stopTimes) = 0 THEN "Destination inconnue"
    ELSE IF getStop(stopTimes[Len(stopTimes)].stop_id) = None
    THEN stopTimes[Len(stopTimes)].stop_id
    ELSE getStop(stopTimes[Len(stopTimes)].stop_id)[1].stop_id

SamePoint(p, q) == FracEq(p.lat, q.lat) /\ FracEq(p.lon, q.lon)

\* object[name] as JavaScript reads it: None (undefined) when the object has
\* no such property.
PropertyOf(object, name) == IF name \in DOMAIN object THEN Some(object[name]) ELSE None

\* createBusPopupContent(bus, tripScheduler): the texts of the popup of a bus.
\* For a bus without segment the stop is read from bus.position.stopInfo and
\* the departure from bus.position.nextDepartureTime; reading stop_name of an
\* undefined stopInfo throws a TypeError.
createBusPopupContent(bus) ==
    IF bus.segment # None
    THEN [thrown |-> FALSE,
          content |-> [state |-> "moving",
                       destination |->
                           TripScheduler_getTripDestination(getStopTimes(bus.tripId)),
                       stop |-> bus.segment[1].toStopId,
                       time |-> Some(bus.segment[1].arrivalTime[1] - bus.currentSeconds)]]
    ELSE IF PropertyOf(bus.position[1], "stopInfo") = None
    THEN [thrown |-> TRUE]
    ELSE [thrown |-> FALSE,
          content |-> [state |-> "stationary",
                       destination |->
                           TripScheduler_getTripDestination(getStopTimes(bus.tripId)),
                       stop |-> PropertyOf(bus.position[1], "stopInfo")[1].stop_id,
                       time |-> PropertyOf(bus.position[1], "nextDepartureTime")]]

\* The popup shown when the marker is not in the registry.
Unavailable == [state |-> "unavailable"]

\* updateMovingBusPopup and updateStationaryBusPopup on an open popup: the
\* texts of the bus are written into the elements of the popup; a popup that
\* is empty or says that the information is unavailable has no such element,
\* and an exception while the texts are made is caught and logged.
updateBusPopup(content, bus) ==
    IF content = None \/ content = Some(Unavailable) \/ createBusPopupContent(bus).thrown
    THEN content
    ELSE Some(createBusPopupContent(bus).content)

\* 'moving' or 'stationary' (bus.segment ? 'moving' : 'stationary').
StateOfBus(bus) == IF bus.segment # None THEN "moving" ELSE "stationary"

\* The place of the marker of a bus, [lat, lon] of bus.position.
LatLngOf(bus) ==
    IF bus.segment # None
    THEN [lat |-> bus.position[1].lat, lon |-> bus.position[1].lon]
    ELSE [lat |-> <<bus.position[1].lat, 1>>, lon |-> <<bus.position[1].lon, 1>>]

\* createBusMarker(bus, tripScheduler, busId): a marker at the place of the
\* bus with an empty popup bound to it, and the marker data returned.
createBusMarker(bus) ==
    [bus |-> bus, latLng |-> LatLngOf(bus), popupOpen |-> FALSE, popupContent |-> None,
     lastState |-> StateOfBus(bus)]

\* The listener of popupopen of a marker (createBusMarker, lines 411-420) on
\* the registry: the popup is filled from the bus stored for the marker, or
\* says that the information is unavailable when the marker is not (yet) in
\* the registry; an exception leaves popup and lastState as they were.
OpenedPopup(markers, busId, markerData) ==
    IF busId \notin DOMAIN markers
    THEN [markerData EXCEPT !.popupOpen = TRUE, !.popupContent = Some(Unavailable)]
    ELSE IF createBusPopupContent(markers[busId].bus).thrown
    THEN [markerData EXCEPT !.popupOpen = TRUE]
    ELSE [markerData EXCEPT
             !.popupOpen = TRUE,
             !.popupContent = Some(createBusPopupContent(markers[busId].bus).content),
             !.lastState = StateOfBus(markers[busId].bus)]

\* updateBusMarkers, first loop: the ids of the registry that no bus has.
GoneIds(markers, buses) == DOMAIN markers \ {buses[i].tripId : i \in 1..Len(buses)}

\* reopenPopupAt after the first loop: the place of a removed marker whose
\* popup was open (at most one popup is open on the map), or None (null).
ReopenPopupAt(markers, buses) ==
    LET open == {busId \in GoneIds(markers, buses) : markers[busId].popupOpen}
    IN IF open = {} THEN None ELSE Some(markers[CHOOSE busId \in open : TRUE].latLng)

\* updateBusMarkers, second loop, the marker of the registry moved to its bus:
\* the bus is stored, the marker moved, an open popup updated.
MovedMarker(markerData, bus) ==
    [markerData EXCEPT
        !.bus = bus,
        !.latLng = LatLngOf(bus),
        !.popupContent = IF markerData.popupOpen THEN updateBusPopup(@, bus) ELSE @,
        !.lastState = StateOfBus(bus)]

\* updateBusMarkers, second loop, a new marker: its popup is opened when the
\* marker stands where a removed marker had its popup open.
NewMarker(R, bus) ==
    IF R.reopenPopupAt # None /\ SamePoint(LatLngOf(bus), R.reopenPopupAt[1])
    THEN [busMarkers |-> (bus.tripId :> OpenedPopup(R.busMarkers, bus.tripId,
                                                    createBusMarker(bus)))
                         @@ R.busMarkers,
          markersToAdd |-> R.markersToAdd (+) SetToBag({bus.tripId}),
          reopenPopupAt |-> None]
    ELSE [busMarkers |-> (bus.tripId :> createBusMarker(bus)) @@ R.busMarkers,
          markersToAdd |-> R.markersToAdd (+) SetToBag({bus.tripId}),
          reopenPopupAt |-> R.reopenPopupAt]

\* updateBusMarkers, second loop, one bus: a bus without tripId is skipped.
PlaceBus(R, bus) ==
    IF bus.tripId = "" THEN R
    ELSE IF bus.tripId \in DOMAIN R.busMarkers
    THEN [R EXCEPT !.busMarkers[bus.tripId] = MovedMarker(@, bus)]
    ELSE NewMarker(R, bus)

RECURSIVE PlaceBuses(_, _)
PlaceBuses(R, buses) ==
    IF buses = <<>> THEN R ELSE PlaceBuses(PlaceBus(R, Head(buses)), Tail(buses))

\* updateBusMarkers with the removed markers left in the registry and in the
\* cluster group.
updateBusMarkersKeepingGone(markers, cluster, buses) ==
    LET R == PlaceBuses([busMarkers |-> markers, markersToAdd |-> EmptyBag,
                         reopenPopupAt |-> None], buses)
    IN [busMarkers |-> R.busMarkers, clusterGroup |-> cluster (+) R.markersToAdd]

\* updateBusMarkers(busesWithPositions, tripScheduler, currentSeconds): the
\* registry and the cluster group after the call.
updateBusMarkers(markers, cluster, buses) ==
    LET gone == GoneIds(markers, buses)
        R == PlaceBuses([busMarkers |-> [busId \in DOMAIN markers \ gone |-> markers[busId]],
                         markersToAdd |-> EmptyBag,
                         reopenPopupAt |-> ReopenPopupAt(markers, buses)],
                        buses)
    IN [busMarkers |-> R.busMarkers,
        clusterGroup |-> (cluster (-) SetToBag(gone)) (+) R.markersToAdd]

\* updateData(timeInfo) at a second, with the route filter given: in planner
\* mode the clock only; otherwise the buses in service at the second, their
\* positions and their markers.
updateDataAt(seconds, routes) ==
    /\ clock' = Some(seconds)
    /\ IF isPlannerMode'
       THEN UNCHANGED <<timeInfo, activeBuses, busesWithPositions, busMarkers, clusterGroup>>
       ELSE \E buses \in {TripScheduler_getActiveTrips(seconds, Friday)} :
               \E visible \in {VisibleBuses(buses, routes)} :
                  \E R \in {updateBusMarkers(busMarkers, clusterGroup, visible)} :
                     /\ timeInfo' = Some([seconds |-> seconds, date |-> Friday])
                     /\ activeBuses' = buses
                     /\ busesWithPositions' = visible
                     /\ busMarkers' = R.busMarkers
                     /\ clusterGroup' = R.clusterGroup

\* No itinerary request is between its call of findItinerary and its return:
\* findItinerary awaits nothing, so no other event is handled before the
\* request has set the map (pc = "idle" once it has).
NoRequestInFlight == ~isPlannerMode \/ pc = "idle"

\* updateData(timeInfo), the listener of the clock.
updateData ==
    /\ app.pc = "started"
    /\ NoRequestInFlight
    /\ UNCHANGED <<isPlannerMode, visibleRoutes, clusterShown, itineraryLayer>>
    /\ \E seconds \in ClockTimes : updateDataAt(seconds, visibleRoutes)
    /\ UNCHANGED <<feed, transferMap, plannerVars, popup, app, previous>>

NextMap == updateData

\* A trip of three calls S1, S2, S3 with non-decreasing times from the first
\* departure on; the arrival time at the first stop is any time.
LiveCalls ==
    { <<Call("S1", x[1], x[2]), Call("S2", x[3], x[4]), Call("S3", x[5], x[5])>> :
        x \in {y \in LiveTimes \X LiveTimes \X LiveTimes \X LiveTimes \X LiveTimes :
                  y[2] <= y[3] /\ y[3] <= y[4] /\ y[4] <= y[5]} }

\* calendar.txt and calendar_dates.txt of the live catalogs: s1 every day;
\* s2 every day; s1 on mondays only; s1 every day but removed on the date;
\* s1 every day and s2 added on the date.
LiveCalendars ==
    LET rule(service, days) == [service_id |-> service, days |-> days,
                                start_date |-> 20240101, end_date |-> 20241231]
        exception(service, type) == [service_id |-> service, date |-> Friday.ymd,
                                     exception_type |-> type]
    IN { <<EveryDay, <<>>>>,
         << <<rule("s2", AllDays)>>, <<>> >>,
         << <<rule("s1", {"monday"})>>, <<>> >>,
         <<EveryDay, <<exception("s1", "2")>>>>,
         <<EveryDay, <<exception("s2", "1")>>>> }

\* map.geojson with one LineString feature of route R1 through the points
\* of the given latitudes.
LineOfRoute(lats) ==
    Some([features |->
            <<[properties |-> [route_id |-> "R1"],
               geometry |-> [type |-> "LineString",
                             coordinates |-> [i \in 1..Len(lats) |-> <<0, lats[i]>>]]]>>])

\* The contents of map.geojson: not loaded; no feature; a line through the
\* three stops; a line that overshoots S2 before coming back to it; a line
\* of a single vertex.
LiveGeoJson ==
    {None, Some([features |-> <<>>]), LineOfRoute(<<0, 600, 1003>>),
     LineOfRoute(<<0, 700, 600, 1003>>), LineOfRoute(<<600>>)}

\* The live catalogs: trip T1 of service s1 with LiveCalls, trip T2 of service
\* s1 or s2 from S1 to S3.
InitMap ==
    /\ \E calls1 \in LiveCalls, service2 \in Services, c \in LiveCalendars,
          geoJson \in LiveGeoJson :
          feed = loadAllData(
                    [Tables(
                        <<StopRow("S1", 0, "", "0"), StopRow("S2", 600, "", "0"),
                          StopRow("S3", 1003, "", "0")>>,
                        calls1,
                        [calls |-> <<Call("S1", 1, 1), Call("S3", 2, 2)>>,
                         service |-> service2],
                        c[1], c[2])
                     EXCEPT !.geoJson = geoJson])
    /\ query = [startCoords |-> Coords(0), endCoords |-> Coords(603),
                departure |-> Clock(0), date |-> Friday]
    /\ InitSearch
    /\ InitLive

SpecMap == InitMap /\ [][NextMap]_vars

\* The services active on a date by calendar.txt and calendar_dates.txt:
\* added on the date, or not removed on it and running by a rule.
ActiveServicesOn(date) ==
    LET excepted(service, type) ==
            \E d \in Range(feed.calendarDates) :
                d.service_id = service /\ d.date = date.ymd /\ d.exception_type = type
        ruled(service) ==
            \E r \in Range(feed.calendar) :
                /\ r.service_id = service
                /\ DayNames[date.day + 1] \in r.days
                /\ r.start_date <= date.ymd /\ date.ymd <= r.end_date
    IN {service \in ServiceIds :
           excepted(service, "1") \/ (~excepted(service, "2") /\ ruled(service))}

Updated == timeInfo # None

\* The first departure and the last arrival of a trip.
FirstDeparture(tripId) == timeToSeconds(getStopTimes(tripId)[1].departure_time)
LastArrival(tripId) ==
    timeToSeconds(getStopTimes(tripId)[Len(getStopTimes(tripId))].arrival_time)

\* C12 (witness): an update that returns two buses, in a catalog where the
\* two trips run on the date.
C12_Witness ==
    /\ Updated
    /\ Len(activeBuses) = 2

\* C12: every entry returned by TripScheduler.getActiveTrips(t, date) is a
\* trip whose service is active on the date and whose window
\* [first departure, last arrival] holds t, and no trip appears more than
\* once in the result.
C12_ActiveAndLive ==
    Updated =>
        /\ \A i \in 1..Len(activeBuses) :
              LET tripId == activeBuses[i].tripId
              IN /\ TripById(tripId) # None
                 /\ TripById(tripId)[1].service_id \in ActiveServicesOn(timeInfo[1].date)
                 /\ Len(getStopTimes(tripId)) >= 1
                 /\ FirstDeparture(tripId) <= timeInfo[1].seconds
                 /\ timeInfo[1].seconds <= LastArrival(tripId)
        /\ \A i, j \in 1..Len(activeBuses) :
              activeBuses[i].tripId = activeBuses[j].tripId => i = j

\* C13: for every trip of at least two stop_times whose stops are all known,
\* at every second of [first departure, last arrival] findCurrentState
\* returns a state: every trip DataManager.getActiveTrips hands over has its
\* entry in the result, also at the second of the first departure when the
\* first stop's arrival time is later than its departure time.
C13_NoGap ==
    Updated =>
        \A e \in Range(getActiveTrips(timeInfo[1].seconds, timeInfo[1].date)) :
            (\A st \in Range(e.stopTimes) : getStop(st.stop_id) # None)
            => \E i \in 1..Len(activeBuses) : activeBuses[i].tripId = e.tripId

\* The bus is shown waiting at the stop of row st.
IsDwellAt(bus, st) ==
    /\ bus.segment = None
    /\ getStop(st.stop_id) # None
    /\ bus.position = Some([lat |-> getStop(st.stop_id)[1].stop_lat,
                            lon |-> getStop(st.stop_id)[1].stop_lon])

\* The bus is shown moving from the stop of row from to the stop of row to.
IsMove(bus, from, to) ==
    /\ bus.segment # None
    /\ bus.segment[1].fromStopId = from.stop_id
    /\ bus.segment[1].toStopId = to.stop_id
    /\ bus.segment[1].departureTime = Some(timeToSeconds(from.departure_time))
    /\ bus.segment[1].arrivalTime = Some(timeToSeconds(to.arrival_time))

\* The intermediate rows of a trip at which the vehicle dwells
\* (arrival < departure).
DwellRows(stopTimes) ==
    {i \in 2..(Len(stopTimes) - 1) :
        timeToSeconds(stopTimes[i].arrival_time) < timeToSeconds(stopTimes[i].departure_time)}

\* C14 as stated: for every intermediate stop i with arrival < departure, the
\* state at t = stop[i].arrival is a dwell at stop[i], and the state at
\* t = stop[i].departure + 1 is a move from stop[i] to stop[i+1].
C14_DwellAtArrival ==
    Updated =>
        \A k \in 1..Len(activeBuses) :
            LET stopTimes == getStopTimes(activeBuses[k].tripId)
                t == timeInfo[1].seconds
            IN \A i \in DwellRows(stopTimes) :
                  /\ t = timeToSeconds(stopTimes[i].arrival_time)
                        => IsDwellAt(activeBuses[k], stopTimes[i])
                  /\ t = timeToSeconds(stopTimes[i].departure_time) + 1
                        => IsMove(activeBuses[k], stopTimes[i], stopTimes[i + 1])

\* C14 (witness): an update at the second a bus arrives at an intermediate
\* stop where it dwells, after a hop of at least one second.
C14_Witness ==
    /\ Updated
    /\ \E k \in 1..Len(activeBuses) :
          LET stopTimes == getStopTimes(activeBuses[k].tripId)
          IN \E i \in DwellRows(stopTimes) :
                /\ timeInfo[1].seconds = timeToSeconds(stopTimes[i].arrival_time)
                /\ timeToSeconds(stopTimes[i - 1].departure_time)
                      < timeToSeconds(stopTimes[i].arrival_time)

\* C14 (amended): for every intermediate stop i with arrival < departure of a
\* trip whose times do not decrease, the state at t = stop[i].arrival is
\* still the move from stop[i-1] to stop[i], at progress 1, when that hop
\* takes at least one second; the state at every t with
\* stop[i].arrival < t <= stop[i].departure is a dwell at stop[i]; and the
\* state at t = stop[i].departure + 1 is a move from stop[i] to stop[i+1]
\* when stop[i+1].arrival is not earlier than that second.
C14_MoveUntilArrival ==
    Updated =>
        \A k \in 1..Len(activeBuses) :
            LET stopTimes == getStopTimes(activeBuses[k].tripId)
                t == timeInfo[1].seconds
            IN \A i \in DwellRows(stopTimes) :
                  /\ (/\ t = timeToSeconds(stopTimes[i].arrival_time)
                      /\ timeToSeconds(stopTimes[i - 1].departure_time) < t)
                        => /\ IsMove(activeBuses[k], stopTimes[i - 1], stopTimes[i])
                           /\ activeBuses[k].segment[1].progress = Some(<<1, 1>>)
                  /\ (/\ timeToSeconds(stopTimes[i].arrival_time) < t
                      /\ t <= timeToSeconds(stopTimes[i].departure_time))
                        => IsDwellAt(activeBuses[k], stopTimes[i])
                  /\ (/\ t = timeToSeconds(stopTimes[i].departure_time) + 1
                      /\ t <= timeToSeconds(stopTimes[i + 1].arrival_time))
                        => IsMove(activeBuses[k], stopTimes[i], stopTimes[i + 1])

(***************************************************************************)
(* The position of a moving bus.                                           *)
(***************************************************************************)
\* The point along the line of the bus's route at the bus's progress, None
\* when the route has no line or the slice between the vertices nearest to
\* the two stops is degenerate.
PointAlongRoute(bus) ==
    LET segment == bus.segment[1]
        from == getStop(segment.fromStopId)[1]
        to == getStop(segment.toStopId)[1]
        geometry == IF bus.route = None THEN None
                    ELSE getRouteGeometry(bus.route[1].route_id)
    IN IF geometry = None THEN None
       ELSE interpolateAlongRoute(geometry[1].coordinates, from.stop_lat, from.stop_lon,
                                  to.stop_lat, to.stop_lon, segment.progress[1])

\* C15: a moving bus is placed by linear interpolation between its two stops
\* only when its route has no line geometry or the slice between the nearest
\* vertices is degenerate; when the route has a geometry with a
\* non-degenerate slice the bus is at arc length progress x total length
\* along that slice.
C15_AlongRoute ==
    \A i \in 1..Len(busesWithPositions) :
        LET bus == busesWithPositions[i]
            segment == bus.segment[1]
            from == getStop(segment.fromStopId)[1]
            to == getStop(segment.toStopId)[1]
        IN bus.segment # None =>
              IF PointAlongRoute(bus) # None
              THEN SamePoint(bus.position[1], PointAlongRoute(bus)[1])
              ELSE SamePoint(bus.position[1],
                             LinearPosition(from.stop_lat, from.stop_lon,
                                            to.stop_lat, to.stop_lon, segment.progress[1]))

(***************************************************************************)
(* The transfer map.                                                       *)
(***************************************************************************)
\* Where S2 and S3 lie: at S1, next to it, at the walking limit of S1 and
\* just beyond it, and further away.
TransferPositions == {0, 1, 499, 500, 501, 1000, 1001}

\* stops.txt: S1 at the origin, a stop or a station; S2 standalone or, when
\* S1 is a station, its child; S3 standalone.
TransferStops ==
    { <<StopRow("S1", 0, "", x[1]), StopRow("S2", x[2], x[3], "0"),
        StopRow("S3", x[4], "", "0")>> :
        x \in {y \in {"0", "1"} \X TransferPositions \X {"", "S1"} \X TransferPositions :
                  y[3] = "S1" => y[1] = "1"} }

\* A LocalPathfinder constructed over each of these catalogs, with one trip
\* from S1 to S3, before a call from S1 to S3.
InitTransfers ==
    /\ \E stops \in TransferStops :
          feed = loadAllData(Tables(stops, <<Call("S1", 0, 0), Call("S3", 1, 1)>>,
                                    [calls |-> <<>>, service |-> "s1"], EveryDay, <<>>))
    /\ \E q \in {<<0, 1000>>, <<0, 501>>} :
          query = [startCoords |-> Coords(q[1]), endCoords |-> Coords(q[2]),
                   departure |-> Clock(0), date |-> Friday]
    /\ InitSearch
    /\ InitLive

SpecTransfers == InitTransfers /\ [][Next]_vars

HasTransfer(a, b) == \E t \in Range(transferMap[a]) : t.toStopId = b

StopDistance(a, b) == calculateDistance(a.stop_lat, a.stop_lon, b.stop_lat, b.stop_lon)

\* The transfer map has a transfer at exactly the walking limit and a pair
\* of master stops just beyond the limit.
C16_Witness ==
    /\ \E a \in DOMAIN transferMap : \E t \in Range(transferMap[a]) :
          t.distance = MAX_WALK_METERS
    /\ \E a, b \in Range(feed.masterStops) : StopDistance(a, b) = MAX_WALK_METERS + 1

\* C16: for all master stops A and B, A has a transfer to B iff they are
\* distinct and at most MAX_WALK_METERS apart; a transfer A->B comes with a
\* transfer B->A of equal walk time ceil(distance / WALK_SPEED_MPS) and equal
\* distance; no stop has a transfer to itself; every master stop has an
\* entry.
C16_TransferMap ==
    /\ \A a \in Range(feed.masterStops) : a.stop_id \in DOMAIN transferMap
    /\ \A a, b \in Range(feed.masterStops) :
          HasTransfer(a.stop_id, b.stop_id)
              <=> (a.stop_id # b.stop_id /\ StopDistance(a, b) <= MAX_WALK_METERS)
    /\ \A a \in DOMAIN transferMap : \A t \in Range(transferMap[a]) :
          /\ t.toStopId # a
          /\ t.toStopId \in DOMAIN transferMap
          /\ t.walkTime * WALK_SPEED_NUM >= t.distance * WALK_SPEED_DEN
          /\ (t.walkTime - 1) * WALK_SPEED_NUM < t.distance * WALK_SPEED_DEN
          /\ \E u \in Range(transferMap[t.toStopId]) :
                u.toStopId = a /\ u.walkTime = t.walkTime /\ u.distance = t.distance

(***************************************************************************)
(* The grouping of stops.                                                  *)
(***************************************************************************)
\* The rows of stops.txt in every order: S1 a stop or a station; S2 and S3
\* standalone or children of S1.
GroupingStops ==
    { [i \in 1..3 |->
         <<StopRow("S1", 0, "", x[1]), StopRow("S2", 1, x[2], "0"),
           StopRow("S3", 600, x[3], "0")>>[x[4][i]]] :
        x \in {"0", "1"} \X {"", "S1"} \X {"", "S1"}
              \X {p \in [1..3 -> 1..3] : \A i, j \in 1..3 : p[i] = p[j] => i = j} }

\* The catalogs loaded from these rows, with one trip from S1 to S3.
InitGrouping ==
    /\ \E stops \in GroupingStops :
          feed = loadAllData(Tables(stops, <<Call("S1", 0, 0), Call("S3", 1, 1)>>,
                                    [calls |-> <<>>, service |-> "s1"], EveryDay, <<>>))
    /\ \E q \in {<<0, 603>>, <<0, 1500>>} :
          query = [startCoords |-> Coords(q[1]), endCoords |-> Coords(q[2]),
                   departure |-> Clock(0), date |-> Friday]
    /\ InitSearch
    /\ InitLive

SpecGrouping == InitGrouping /\ [][Next]_vars

\* How many times the id is in the list.
Occurrences(list, id) == Cardinality({i \in 1..Len(list) : list[i] = id})

\* C17: whatever the order of the rows of stops.txt, every stop id is in
\* exactly one child list of groupedStopMap, the list of its parent_station
\* when it has one and its own list otherwise; every station lists itself;
\* every key with children is a stop of masterStops.
C17_OneList ==
    /\ \A stop \in Range(feed.stops) :
          LET key == IF HasParent(stop) THEN stop.parent_station ELSE stop.stop_id
          IN /\ key \in DOMAIN feed.groupedStopMap
             /\ \A k \in DOMAIN feed.groupedStopMap :
                   Occurrences(feed.groupedStopMap[k], stop.stop_id)
                       = (IF k = key THEN 1 ELSE 0)
    /\ \A k \in DOMAIN feed.groupedStopMap :
          feed.groupedStopMap[k] # <<>> => k \in MasterIds

(***************************************************************************)
(* The departures of a stop (mapRenderer.js onStopClick).                  *)
(***************************************************************************)
\* The events of the stops, stop after stop in the order of stopIds, each
\* stop's events in the order of stopTimesByStop.
RECURSIVE EventsAt(_, _)
EventsAt(stopIds, n) ==
    IF n = 0 THEN <<>>
    ELSE EventsAt(stopIds, n - 1)
         \o [i \in 1..Len(StopTimesAt(stopIds[n])) |->
               [stopId |-> stopIds[n], st |-> StopTimesAt(stopIds[n])[i]]]

\* Array.prototype.sort by departureSeconds (stable): insertion of each
\* entry after the entries that do not depart later.
RECURSIVE SortByDeparture(_)
SortByDeparture(deps) ==
    IF deps = <<>> THEN <<>>
    ELSE LET sorted == SortByDeparture(SubSeq(deps, 1, Len(deps) - 1))
             last == deps[Len(deps)]
             before == {i \in 1..Len(sorted) :
                           sorted[i].departureSeconds <= last.departureSeconds}
         IN SubSeq(sorted, 1, Cardinality(before)) \o <<last>>
            \o SubSeq(sorted, Cardinality(before) + 1, Len(sorted))

\* getUpcomingDepartures(stopIds, currentSeconds, date, limit): the first
\* limit departures at the stops from currentSeconds on, of the trips of the
\* service getServiceId gives for the date, each with its route and
\* destination.
getUpcomingDepartures(stopIds, currentSeconds, date, limit) ==
    LET service == getServiceId(date)
        events == EventsAt(stopIds, Len(stopIds))
        kept == FilterSeq(events,
                    {e \in Range(events) :
                        /\ TripById(e.st.trip_id) # None
                        /\ TripById(e.st.trip_id)[1].service_id = service[1]
                        /\ timeToSeconds(e.st.departure_time) >= currentSeconds})
        allDepartures == SortByDeparture(
                    [i \in 1..Len(kept) |->
                        [tripId |-> kept[i].st.trip_id,
                         stopId |-> kept[i].stopId,
                         time |-> kept[i].st.departure_time,
                         departureSeconds |-> timeToSeconds(kept[i].st.departure_time)]])
        limited == SubSeq(allDepartures, 1,
                          IF Len(allDepartures) < limit THEN Len(allDepartures) ELSE limit)
    IN IF service = None THEN <<>>
       ELSE [i \in 1..Len(limited) |->
               LET route == RouteById(TripById(limited[i].tripId)[1].route_id)[1]
               IN [tripId |-> limited[i].tripId,
                   stopId |-> limited[i].stopId,
                   time |-> limited[i].time,
                   departureSeconds |-> limited[i].departureSeconds,
                   routeShortName |-> route.route_short_name,
                   routeColor |-> route.route_color,
                   routeTextColor |-> route.route_text_color,
                   destination |-> getTripDestination(getStopTimes(limited[i].tripId))]]

\* onStopClick(masterStop) at a second of the clock: the popup of the stop
\* with the next five departures of the stops grouped under it.
onStopClick ==
    /\ app.pc = "started"
    /\ \E i \in 1..Len(feed.masterStops), seconds \in ClockTimes :
          LET masterStop == feed.masterStops[i]
              associatedStopIds ==
                  IF masterStop.stop_id \in DOMAIN feed.groupedStopMap
                  THEN feed.groupedStopMap[masterStop.stop_id]
                  ELSE <<masterStop.stop_id>>
          IN popup' = Some([stopIds |-> associatedStopIds,
                            currentSeconds |-> seconds,
                            date |-> Friday,
                            departures |-> getUpcomingDepartures(associatedStopIds, seconds,
                                                                 Friday, 5)])
    /\ UNCHANGED <<feed, transferMap, plannerVars, liveVars, app, previous>>

NextPopup == onStopClick

\* The catalogs of the popup: station S1 with its platform S2, and S3; trip
\* T1 of service s1 from S1 to S2 at any times, T2 of service s1 or s2 from
\* S1 to S3, T3 and T4 of service s1 between S2 and S1; the calendars of the
\* live catalogs.
InitPopup ==
    /\ \E x \in {y \in LiveTimes \X LiveTimes : y[1] <= y[2]},
          service2 \in Services, c \in LiveCalendars :
          feed = loadAllData(
                    [Tables(<<StopRow("S1", 0, "", "1"), StopRow("S2", 1, "S1", "0"),
                              StopRow("S3", 600, "", "0")>>,
                            <<Call("S1", x[1], x[1]), Call("S2", x[2], x[2])>>,
                            [calls |-> <<Call("S1", 1, 1), Call("S3", 2, 2)>>,
                             service |-> service2],
                            c[1], c[2])
                     EXCEPT !.trips = @ \o <<TripRow("T3", "s1"), TripRow("T4", "s1")>>,
                            !.stopTimes =
                                @ \o StopTimeRows("T3", <<Call("S2", 0, 0), Call("S1", 2, 2)>>)
                                  \o StopTimeRows("T4", <<Call("S1", 2, 2), Call("S2", 3, 3)>>)])
    /\ query = [startCoords |-> Coords(0), endCoords |-> Coords(603),
                departure |-> Clock(0), date |-> Friday]
    /\ InitSearch
    /\ InitLive

SpecPopup == InitPopup /\ [][NextPopup]_vars

\* The events <<trip, stop, departure second>> the popup should choose from:
\* at one of the stops, on a trip whose service is active on the date, not
\* before the second of the click.
QualifyingEvents ==
    {<<st.trip_id, st.stop_id, timeToSeconds(st.departure_time)>> :
        st \in {r \in Range(feed.stopTimes) :
                   /\ r.stop_id \in Range(popup[1].stopIds)
                   /\ TripById(r.trip_id) # None
                   /\ TripById(r.trip_id)[1].service_id \in ActiveServicesOn(popup[1].date)
                   /\ timeToSeconds(r.departure_time) >= popup[1].currentSeconds}}

ReturnedEvents ==
    {<<d.tripId, d.stopId, d.departureSeconds>> : d \in Range(popup[1].departures)}

\* C18: the departures of getUpcomingDepartures are at most limit, sorted by
\* departureSeconds, each a qualifying event; no qualifying event left out
\* departs strictly earlier than a returned one; none is returned when no
\* service is active.
C18_UpcomingDepartures ==
    popup # None =>
        LET departures == popup[1].departures
        IN /\ Len(departures) <= 5
           /\ \A i, j \in 1..Len(departures) :
                 i < j => departures[i].departureSeconds <= departures[j].departureSeconds
           /\ ReturnedEvents \subseteq QualifyingEvents
           /\ \A e \in QualifyingEvents \ ReturnedEvents :
                 \A d \in ReturnedEvents : e[3] >= d[3]
           /\ ActiveServicesOn(popup[1].date) = {} => departures = <<>>

(***************************************************************************)
(* Two calls with the same arguments.                                      *)
(***************************************************************************)
\* The catalogs of the planner, with the query from the origin to the point
\* at 603 m one second after midnight.
InitTwice == InitDaytime /\ query.endCoords = Coords(603)

SpecTwice == InitTwice /\ [][NextTwice]_vars

CalledTwice == pc = "done" /\ previous # None

\* Both calls found a path.
C20_Witness == CalledTwice /\ result.status = "OK" /\ Len(result.path) >= 2

\* C20: two calls with the same arguments over the same catalog return the
\* same status, the same legs and the same stats, and a call leaves the
\* catalog and the transfer map as they were.
C20_SameOutcome ==
    /\ [](CalledTwice => result = previous[1])
    /\ [][feed' = feed /\ transferMap' = transferMap]_vars

\* C20 as the code has it: two calls with the same arguments return the same
\* status, the same legs and the same stats.duration; stats.calcTime is the
\* time the call took and is left out; a call leaves the catalog and the
\* transfer map as they were.
C20_SameButCalcTime ==
    /\ [](CalledTwice => /\ result.status = previous[1].status
                         /\ result.path = previous[1].path
                         /\ result.duration = previous[1].duration)
    /\ [][feed' = feed /\ transferMap' = transferMap]_vars

(***************************************************************************)
(* Start-up (main.js initializeApp, DataManager.loadAllData).              *)
(*   app.pc = "loading"   loadAllData awaits Promise.all of the seven      *)
(*                        loads; app.pending are the loads not settled     *)
(*   app.pc = "returned"  loadAllData has returned app.returned            *)
(*   app.pc = "started"   initializeApp has run to its end                 *)
(*   app.pc = "failed"    initializeApp has caught an exception            *)
(***************************************************************************)
\* The DataManager after its constructor. The indexes the constructor does
\* not create (routesById, stopsById) are empty.
NewDataManager ==
    [isLoaded |-> FALSE, routes |-> <<>>, geoJson |-> None, routesById |-> <<>>,
     stops |-> <<>>, trips |-> <<>>, stopTimes |-> <<>>, calendar |-> <<>>,
     calendarDates |-> <<>>, stopsById |-> <<>>, tripsByTripId |-> <<>>,
     stopTimesByTrip |-> <<>>, stopTimesByStop |-> <<>>, masterStops |-> <<>>,
     groupedStopMap |-> <<>>]

\* What the seven loads give when they all succeed, and when map.geojson
\* alone is missing (loadGeoJSON resolves to null).
LoadedTables(files) ==
    [Tables(<<StopRow("S1", 0, "", "0"), StopRow("S2", 600, "", "0"),
              StopRow("S3", 1003, "", "0")>>,
            <<Call("S1", 0, 0), Call("S2", 1, 1), Call("S3", 2, 2)>>,
            [calls |-> <<>>, service |-> "s1"], EveryDay, <<>>)
     EXCEPT !.geoJson = IF files["map.geojson"] = "ok"
                        THEN LineOfRoute(<<0, 600, 1003>>) ELSE None]

\* One of the seven loads settles: its promise is fulfilled, or rejected
\* when a GTFS file cannot be fetched (loadGTFSFile throws); Promise.all is
\* rejected with the first rejection.
loadSettles ==
    /\ \E f \in app.pending :
          app' = [app EXCEPT !.pending = @ \ {f},
                             !.rejected = @ \/ (f \in GTFSFiles /\ app.files[f] = "missing")]
    /\ UNCHANGED <<feed, transferMap, plannerVars, liveVars, popup, previous>>

\* loadAllData after its await: the tables are stored and indexed and
\* isLoaded is true when every load is fulfilled; the catch block shows the
\* error and leaves isLoaded false when Promise.all is rejected. It returns
\* isLoaded.
loadAllDataReturns ==
    /\ app.pc = "loading"
    /\ app.rejected \/ app.pending = {}
    /\ IF app.rejected
       THEN /\ feed' = [feed EXCEPT !.isLoaded = FALSE]
            /\ app' = [app EXCEPT !.pc = "returned", !.errorShown = TRUE,
                                  !.returned = Some(FALSE)]
       ELSE /\ feed' = loadAllData(LoadedTables(app.files))
            /\ app' = [app EXCEPT !.pc = "returned", !.returned = Some(TRUE)]
    /\ UNCHANGED <<transferMap, plannerVars, liveVars, popup, previous>>

\* initializeApp after await dataManager.loadAllData(), whose value it does
\* not read: the components are constructed over the DataManager, the status
\* line is set to 'Données chargées' (class loaded) and updateData() is
\* called once.
initializeAppContinues ==
    /\ app.pc = "returned"
    /\ transferMap' = prebuildTransferMap(feed.masterStops)
    /\ app' = [app EXCEPT !.pc = "started", !.constructed = TRUE, !.dataStatus = "loaded"]
    /\ visibleRoutes' = {feed.routes[i].route_id : i \in 1..Len(feed.routes)}
    /\ isPlannerMode' = FALSE
    /\ clusterShown' = TRUE
    /\ UNCHANGED itineraryLayer
    /\ \E seconds \in ClockTimes : updateDataAt(seconds, visibleRoutes')
    /\ UNCHANGED <<feed, plannerVars, popup, previous>>

NextLoad == loadSettles \/ loadAllDataReturns \/ initializeAppContinues

\* initializeApp has called loadAllData on a new DataManager; each of the
\* seven files is there or missing.
InitLoad ==
    /\ feed = NewDataManager
    /\ \E files \in [Loads -> {"ok", "missing"}] :
          app = [pc |-> "loading", files |-> files, pending |-> Loads, rejected |-> FALSE,
                 returned |-> None, errorShown |-> FALSE, constructed |-> FALSE,
                 dataStatus |-> ""]
    /\ query = [startCoords |-> Coords(0), endCoords |-> Coords(603),
                departure |-> Clock(0), date |-> Friday]
    /\ InitSearch
    /\ timeInfo = None
    /\ activeBuses = <<>>
    /\ busesWithPositions = <<>>
    /\ popup = None
    /\ clock = None
    /\ isPlannerMode = FALSE
    /\ visibleRoutes = {}
    /\ busMarkers = <<>>
    /\ clusterGroup = EmptyBag
    /\ clusterShown = FALSE
    /\ itineraryLayer = <<>>

SpecLoad == InitLoad /\ [][NextLoad]_vars

AllGTFSLoaded == \A f \in GTFSFiles : app.files[f] = "ok"

ShownAsLoaded == app.dataStatus = "loaded" /\ app.constructed

\* C19: in every completion order and every combination of successes and
\* failures of the seven loads, the application is in its loaded state only
\* if the six GTFS files loaded; when one of the six fails, loadAllData tells
\* its caller and start-up does not go on as loaded; a missing map.geojson
\* alone is no failure.
C19_LoadedOnlyIfAllLoaded ==
    /\ feed.isLoaded => AllGTFSLoaded
    /\ (app.returned # None /\ ~AllGTFSLoaded) => app.returned = Some(FALSE)
    /\ ~AllGTFSLoaded => ~ShownAsLoaded
    /\ (app.pc = "started" /\ AllGTFSLoaded) => (feed.isLoaded /\ ShownAsLoaded)

(***************************************************************************)
(* A query and its reverse.                                                *)
(***************************************************************************)
\* Stops S1 at 0 m, S2 at 600 m, S3 at 603 m; two trips of two calls each,
\* in any direction at any times; the query from S1 to S2 at midnight or
\* later, then the query back.
InitReversed ==
    /\ \E calls1 \in TwoCalls, calls2 \in TwoCalls :
          feed = loadAllData(Tables(
                    <<StopRow("S1", 0, "", "0"), StopRow("S2", 600, "", "0"),
                      StopRow("S3", 603, "", "0")>>,
                    calls1, [calls |-> calls2, service |-> "s1"], EveryDay, <<>>))
    /\ \E t \in Times :
          query = [startCoords |-> Coords(0), endCoords |-> Coords(600),
                   departure |-> Clock(t), date |-> Friday]
    /\ InitSearch
    /\ InitLive

SpecReversed == InitReversed /\ [][NextReversed]_vars

\* Both the query and its reverse have returned a journey.
BothReturned == pc = "done" /\ previous # None /\ result.status = "OK"
                /\ previous[1].status = "OK"

ArrivalOf(outcome) == outcome.path[Len(outcome.path)].endTime

C22_ReachesStart == result.status # "HANG"

(***************************************************************************)
(* Labels during a search.                                                 *)
(***************************************************************************)
\* C23: a candidate arrival is accepted only if it is strictly earlier than
\* the stop's current label, so no step of a search increases the label of a
\* stop or leaves it unlabelled again, and a back-link changes only in a step
\* that strictly decreases the label, the label 0 included.
C23_LabelNeverIncreases ==
    [][\A s \in StopIds :
          minArrivalTime[s] # None =>
             /\ minArrivalTime'[s] # None
             /\ minArrivalTime'[s][1] <= minArrivalTime[s][1]
             /\ backLink'[s] # backLink[s] => minArrivalTime'[s][1] < minArrivalTime[s][1]]_vars

\* C24: in every state of a search the back-links are acyclic: from any
\* labelled stop the chain of prevStopId reaches START without visiting a stop
\* twice; the leg of each back-link ends at the stop's label and starts no
\* earlier than the label of the stop the link points to.
C24_BackLinksAcyclic ==
    \A s \in StopIds :
       backLink[s] # None =>
          /\ BackLegs(s, Cardinality(StopIds)).end = "OK"
          /\ minArrivalTime[s] = Some(backLink[s][1].leg.endTime)
          /\ backLink[s][1].prevStopId # "START" =>
                /\ minArrivalTime[backLink[s][1].prevStopId] # None
                /\ backLink[s][1].leg.startTime >=
                      minArrivalTime[backLink[s][1].prevStopId][1]

(***************************************************************************)
(* Catalogs with two trips of two calls each between any stops, the stops  *)
(* out of walking range of each other and only S3 in range of the          *)
(* destination.                                                            *)
(***************************************************************************)
InitStale ==
    /\ \E calls1 \in TwoCalls, calls2 \in TwoCalls :
          feed = loadAllData(Tables(
                    <<StopRow("S1", 0, "", "0"), StopRow("S2", 600, "", "0"),
                      StopRow("S3", 1003, "", "0")>>,
                    calls1, [calls |-> calls2, service |-> "s1"], EveryDay, <<>>))
    /\ \E t \in Times :
          query = [startCoords |-> Coords(0), endCoords |-> Coords(1500),
                   departure |-> Clock(t), date |-> Friday]
    /\ InitSearch
    /\ InitLive

SpecStale == InitStale /\ [][Next]_vars

\* C25: a dequeued entry whose arrival time is later than the current label
\* of its stop is skipped: the iteration only removes it from the queue, with
\* no destination test (finalStopId and pc stay) and no expansion (labels,
\* back-links and the set of expansions stay).
C25_StaleEntrySkipped ==
    [][(/\ pc = "search"
        /\ pq # <<>>
        /\ minArrivalTime[Head(pq)[1].toStopId] # None
        /\ Head(pq)[2] > minArrivalTime[Head(pq)[1].toStopId][1])
       => /\ pq' = Tail(pq)
          /\ UNCHANGED <<pc, minArrivalTime, backLink, finalStopId, result, expanded>>]_vars

(***************************************************************************)
(* The classification of findCurrentState.                                 *)
(***************************************************************************)
ArrivalAt(stopTimes, i) == timeToSeconds(stopTimes[i].arrival_time)
DepartureAt(stopTimes, i) == timeToSeconds(stopTimes[i].departure_time)

\* The times of the rows do not decrease: arrival <= departure at each row,
\* and departure <= arrival of the next row.
TimeMonotone(stopTimes) ==
    /\ \A i \in 1..Len(stopTimes) : ArrivalAt(stopTimes, i) <= DepartureAt(stopTimes, i)
    /\ \A i \in 2..Len(stopTimes) : DepartureAt(stopTimes, i - 1) <= ArrivalAt(stopTimes, i)

\* The state is a dwell at the stop of row i, with the row's departure as the
\* next departure.
StateIsDwell(state, stopTimes, i) ==
    /\ state # None
    /\ state[1].type = "waiting_at_stop"
    /\ state[1].position = Some([lat |-> getStop(stopTimes[i].stop_id)[1].stop_lat,
                                 lon |-> getStop(stopTimes[i].stop_id)[1].stop_lon])
    /\ state[1].nextDepartureTime = Some(DepartureAt(stopTimes, i))

\* The state is a move from the stop of row i - 1 to the stop of row i.
StateIsMove(state, stopTimes, i) ==
    /\ state # None
    /\ state[1].type = "moving"
    /\ state[1].fromStopId = stopTimes[i - 1].stop_id
    /\ state[1].toStopId = stopTimes[i].stop_id
    /\ state[1].departureTime = Some(DepartureAt(stopTimes, i - 1))
    /\ state[1].arrivalTime = Some(ArrivalAt(stopTimes, i))

\* progress x (arrival - departure) = t - departure and 0 < progress <= 1.
ProgressExact(state, stopTimes, i, t) ==
    LET progress == state[1].progress[1]
    IN /\ progress[1] * (ArrivalAt(stopTimes, i) - DepartureAt(stopTimes, i - 1))
             = (t - DepartureAt(stopTimes, i - 1)) * progress[2]
       /\ 0 < progress[1]
       /\ progress[1] <= progress[2]

\* The three equivalences of the classification, for the rows of one trip at
\* second t.
Classified(stopTimes, t) ==
    LET state == findCurrentState(stopTimes, t)
    IN /\ StateIsDwell(state, stopTimes, 1)
             <=> (ArrivalAt(stopTimes, 1) <= t /\ t <= DepartureAt(stopTimes, 1))
       /\ \A i \in 2..Len(stopTimes) :
             /\ StateIsDwell(state, stopTimes, i)
                   <=> (ArrivalAt(stopTimes, i) < t /\ t <= DepartureAt(stopTimes, i))
             /\ StateIsMove(state, stopTimes, i)
                   <=> (DepartureAt(stopTimes, i - 1) < t /\ t <= ArrivalAt(stopTimes, i))
             /\ StateIsMove(state, stopTimes, i) => ProgressExact(state, stopTimes, i, t)

\* The trips of the catalog whose rows are time-monotone.
MonotoneTrips == {tripId \in DOMAIN feed.stopTimesByTrip : TimeMonotone(getStopTimes(tripId))}

\* C26 as stated: for every trip with time-monotone stop_times and every
\* second t, findCurrentState reports a dwell at the first stop iff
\* first.arrival <= t <= first.departure, a dwell at an intermediate stop i
\* iff stop[i].arrival < t <= stop[i].departure, a move from stop i-1 to stop
\* i iff stop[i-1].departure < t <= stop[i].arrival, with the exact progress
\* in (0, 1]; and no stop with arrival = departure is reported as a dwell.
C26_Classification ==
    Updated =>
        \A tripId \in MonotoneTrips :
            LET stopTimes == getStopTimes(tripId)
                t == timeInfo[1].seconds
            IN /\ Classified(stopTimes, t)
               /\ \A i \in 1..Len(stopTimes) :
                     ArrivalAt(stopTimes, i) = DepartureAt(stopTimes, i)
                        => ~StateIsDwell(findCurrentState(stopTimes, t), stopTimes, i)

\* C26 (witness): an update at the second of a first stop whose arrival and
\* departure times are equal, on a time-monotone trip that also dwells at an
\* intermediate stop.
C26_Witness ==
    /\ Updated
    /\ \E tripId \in MonotoneTrips :
          LET stopTimes == getStopTimes(tripId)
          IN /\ ArrivalAt(stopTimes, 1) = DepartureAt(stopTimes, 1)
             /\ timeInfo[1].seconds = ArrivalAt(stopTimes, 1)
             /\ DwellRows(stopTimes) # {}

\* C26 (amended): the three equivalences hold, and no stop other than the
\* first is reported as a dwell when its arrival equals its departure; the
\* first stop with arrival = departure is reported as a dwell at that second.
C26_ClassificationButFirstStop ==
    Updated =>
        \A tripId \in MonotoneTrips :
            LET stopTimes == getStopTimes(tripId)
                t == timeInfo[1].seconds
            IN /\ Classified(stopTimes, t)
               /\ \A i \in 2..Len(stopTimes) :
                     ArrivalAt(stopTimes, i) = DepartureAt(stopTimes, i)
                        => ~StateIsDwell(findCurrentState(stopTimes, t), stopTimes, i)
               /\ (ArrivalAt(stopTimes, 1) = DepartureAt(stopTimes, 1)
                      /\ t = ArrivalAt(stopTimes, 1))
                     => StateIsDwell(findCurrentState(stopTimes, t), stopTimes, 1)

(***************************************************************************)
(* The bus markers of the live map.                                        *)
(***************************************************************************)
\* A click on a bus marker while the markers are on the map: its popup opens,
\* the popup open before closes, and the listener of popupopen fills it.
onBusMarkerClick ==
    /\ app.pc = "started"
    /\ clusterShown
    /\ \E busId \in DOMAIN busMarkers :
          busMarkers' = [id \in DOMAIN busMarkers |->
                            IF id = busId
                            THEN OpenedPopup(busMarkers, busId, busMarkers[busId])
                            ELSE [busMarkers[id] EXCEPT !.popupOpen = FALSE]]
    /\ UNCHANGED <<feed, transferMap, plannerVars, popup, app, previous, timeInfo,
                   activeBuses, busesWithPositions, clock, isPlannerMode, visibleRoutes,
                   clusterGroup, clusterShown, itineraryLayer>>

\* A click on the map: the open popup closes.
onMapClick ==
    /\ app.pc = "started"
    /\ \E busId \in DOMAIN busMarkers : busMarkers[busId].popupOpen
    /\ busMarkers' = [id \in DOMAIN busMarkers |-> [busMarkers[id] EXCEPT !.popupOpen = FALSE]]
    /\ UNCHANGED <<feed, transferMap, plannerVars, popup, app, previous, timeInfo,
                   activeBuses, busesWithPositions, clock, isPlannerMode, visibleRoutes,
                   clusterGroup, clusterShown, itineraryLayer>>

NextMarkers == updateData \/ onBusMarkerClick \/ onMapClick

\* The catalogs of the markers: trip T1 of service s1 with LiveCalls, trip T2
\* of service s1 or s2 from S1 to S3; s1 runs every day.
InitMarkers ==
    /\ \E calls1 \in LiveCalls, service2 \in Services :
          feed = loadAllData(Tables(
                    <<StopRow("S1", 0, "", "0"), StopRow("S2", 600, "", "0"),
                      StopRow("S3", 1003, "", "0")>>,
                    calls1,
                    [calls |-> <<Call("S1", 1, 1), Call("S3", 2, 2)>>, service |-> service2],
                    EveryDay, <<>>))
    /\ query = [startCoords |-> Coords(0), endCoords |-> Coords(603),
                departure |-> Clock(0), date |-> Friday]
    /\ InitSearch
    /\ InitLive

SpecMarkers == InitMarkers /\ [][NextMarkers]_vars

\* C27: every record TripScheduler.getActiveTrips returns for a dwelling trip
\* (no segment) carries the stop of the dwell and the next departure from it
\* where the consumers read them (bus.position.stopInfo and
\* bus.position.nextDepartureTime), so that the popup of a stationary bus can
\* be made from the record.
C27_DwellRecordReadable ==
    \A i \in 1..Len(activeBuses) :
        activeBuses[i].segment = None =>
            /\ PropertyOf(activeBuses[i].position[1], "stopInfo") # None
            /\ PropertyOf(activeBuses[i].position[1], "nextDepartureTime") # None
            /\ ~createBusPopupContent(activeBuses[i]).thrown

\* The record stored for a trip is the last one of the buses with that trip.
LatestRecord(buses, busId) ==
    buses[CHOOSE i \in 1..Len(buses) :
             /\ buses[i].tripId = busId
             /\ \A j \in 1..Len(buses) : buses[j].tripId = busId => j <= i]

\* C29: after every call updateBusMarkers(B) the registry has one entry per
\* distinct non-empty tripId of B and no other entry, the markers of the
\* cluster group are the markers of the registry, each once, and the bus
\* stored in an entry is the latest record passed for its trip.
C29_RegistryMatchesBuses ==
    Updated =>
        /\ DOMAIN busMarkers = {busesWithPositions[i].tripId : i \in 1..Len(busesWithPositions)}
                                  \ {""}
        /\ clusterGroup = SetToBag(DOMAIN busMarkers)
        /\ \A busId \in DOMAIN busMarkers :
              busMarkers[busId].bus = LatestRecord(busesWithPositions, busId)

\* C29 (witness): after a call that removed a marker whose popup was open and
\* added a marker at the same place (its popup was opened before the marker
\* was in the registry), while another trip kept its marker or not.
C29_Witness ==
    /\ Updated
    /\ \E busId \in DOMAIN busMarkers :
          /\ busMarkers[busId].popupOpen
          /\ busMarkers[busId].popupContent = Some(Unavailable)

(***************************************************************************)
(* PriorityQueue on its own: elements <<value, priority>> are enqueued and  *)
(* dequeued in any order; the value of an element is a serial number       *)
(* greater than the values present, so that the values tell the order of   *)
(* enqueueing.                                                             *)
(***************************************************************************)
NextValue ==
    IF pq = <<>> THEN 1
    ELSE 1 + (CHOOSE v \in {pq[i][1] : i \in 1..Len(pq)} :
                 \A i \in 1..Len(pq) : pq[i][1] <= v)

pqEnqueue ==
    /\ NextValue <= MaxQueue
    /\ \E priority \in Times : pq' = enqueue(pq, <<NextValue, priority>>)
    /\ UNCHANGED <<feed, transferMap, query, pc, serviceId, minArrivalTime, backLink,
                   finalStopId, result, expanded, outsidePlanner>>

pqDequeue ==
    /\ pq # <<>>
    /\ pq' = dequeue(pq).collection
    /\ UNCHANGED <<feed, transferMap, query, pc, serviceId, minArrivalTime, backLink,
                   finalStopId, result, expanded, outsidePlanner>>

NextQueue == pqEnqueue \/ pqDequeue

InitQueue ==
    /\ feed = loadAllData(Tables(<<StopRow("S1", 0, "", "0")>>, <<>>,
                                 [calls |-> <<>>, service |-> "s1"], EveryDay, <<>>))
    /\ query = [startCoords |-> Coords(0), endCoords |-> Coords(603),
                departure |-> Clock(0), date |-> Friday]
    /\ InitSearch
    /\ InitLive

SpecQueue == InitQueue /\ [][NextQueue]_vars

\* The collection is sorted by non-decreasing priority, and entries of equal
\* priority are in the order they were enqueued.
SortedFirstInFirstOut ==
    \A i, j \in 1..Len(pq) :
        i < j => /\ pq[i][2] <= pq[j][2]
                 /\ pq[i][2] = pq[j][2] => pq[i][1] < pq[j][1]

\* C28: after any sequence of enqueue and dequeue the collection is sorted by
\* non-decreasing priority; dequeue removes and returns an element of minimum
\* priority among those present, the one enqueued first among those of that
\* priority.
C28_SortedFirstInFirstOut ==
    /\ [](SortedFirstInFirstOut)
    /\ [][Len(pq') < Len(pq) =>
             /\ \A i \in 1..Len(pq) :
                   /\ dequeue(pq).element[2] <= pq[i][2]
                   /\ dequeue(pq).element[2] = pq[i][2]
                         => dequeue(pq).element[1] <= pq[i][1]
             /\ \E k \in 1..Len(pq) :
                   /\ pq[k] = dequeue(pq).element
                   /\ pq' = [i \in 1..(Len(pq) - 1) |-> IF i < k THEN pq[i] ELSE pq[i + 1]]]_vars

\* C28 (witness): after enqueues and a dequeue, the collection holds two
\* elements of one priority behind an element of a lower priority that was
\* enqueued after them.
C28_Witness ==
    /\ Len(pq) >= 3
    /\ \A i \in 1..Len(pq) : pq[i][1] > 1
    /\ pq[2][2] = pq[3][2]
    /\ pq[1][2] < pq[2][2]
    /\ pq[1][1] > pq[3][1]

(***************************************************************************)
(* main.js: the planner mode of the map.                                   *)
(***************************************************************************)
\* The places typed into the planner: names of stops, one of them of no stop.
Places == {"S1", "S3", "nowhere"}

\* getCoordsForPlace(place): the coordinates of the master stop of that name
\* (a stop is named by its id), or None (null).
getCoordsForPlace(place) ==
    LET stop == FindFirst(feed.masterStops,
                          {x \in Range(feed.masterStops) : x.stop_id = place})
    IN IF stop = None THEN None
       ELSE Some([lat |-> stop[1].stop_lat, lon |-> stop[1].stop_lon])

\* handleItineraryRequest(fromPlace, toPlace) up to its call of
\* findItinerary: planner mode is set, and left again when a place is unknown.
handleItineraryRequest ==
    /\ app.pc = "started"
    /\ NoRequestInFlight
    /\ \E fromPlace \in Places, toPlace \in Places, t \in Times :
          IF getCoordsForPlace(fromPlace) = None \/ getCoordsForPlace(toPlace) = None
          THEN /\ isPlannerMode' = FALSE
               /\ UNCHANGED plannerVars
          ELSE /\ isPlannerMode' = TRUE
               /\ query' = [startCoords |-> getCoordsForPlace(fromPlace)[1],
                            endCoords |-> getCoordsForPlace(toPlace)[1],
                            departure |-> Clock(t), date |-> Friday]
               /\ pc' = "start"
               /\ serviceId' = None
               /\ pq' = <<>>
               /\ minArrivalTime' = NewMap
               /\ backLink' = [s \in StopIds |-> None]
               /\ finalStopId' = NoStop
               /\ result' = NoResult
               /\ expanded' = {}
    /\ UNCHANGED <<feed, transferMap, popup, app, previous, timeInfo, activeBuses,
                   busesWithPositions, clock, visibleRoutes, busMarkers, clusterGroup,
                   clusterShown, itineraryLayer>>

\* One end of the line of a leg: leg.fromCoords || the coordinates of
\* getStop(leg.fromStopId); None when reading them throws (unknown stop).
LegEnd(coords, stopId) ==
    IF coords # None THEN coords
    ELSE IF getStop(stopId) = None THEN None
    ELSE Some([lat |-> getStop(stopId)[1].stop_lat, lon |-> getStop(stopId)[1].stop_lon])

\* leg.route of a BUS leg: getRoute(trip.route_id), None (undefined) when
\* routes.txt has no such route.
RouteOfLeg(leg) ==
    IF TripById(leg.tripId) = None THEN None
    ELSE RouteById(TripById(leg.tripId)[1].route_id)

\* Drawing the leg throws: an end without coordinates at an unknown stop, or
\* leg.route.route_color of a BUS leg without route.
DrawingThrows(leg) ==
    \/ LegEnd(leg.fromCoords, leg.fromStopId) = None
    \/ LegEnd(leg.toCoords, leg.toStopId) = None
    \/ leg.type = "BUS" /\ RouteOfLeg(leg) = None

Polyline(leg) ==
    [layer |-> "polyline", type |-> leg.type,
     from |-> LegEnd(leg.fromCoords, leg.fromStopId)[1],
     to |-> LegEnd(leg.toCoords, leg.toStopId)[1]]

\* legs.forEach of step 4: the lines added to the itinerary layer, up to the
\* leg whose drawing throws.
RECURSIVE DrawLegs(_, _)
DrawLegs(legs, layers) ==
    IF legs = <<>> THEN [thrown |-> FALSE, layers |-> layers]
    ELSE IF DrawingThrows(Head(legs)) THEN [thrown |-> TRUE, layers |-> layers]
    ELSE DrawLegs(Tail(legs), Append(layers, Polyline(Head(legs))))

\* Step 5: the markers of the start and of the end.
EndMarkers ==
    <<[layer |-> "marker", at |-> query.startCoords, text |-> "Depart"],
      [layer |-> "marker", at |-> query.endCoords, text |-> "Arrivee"]>>

\* handleItineraryRequest from the return of findItinerary: on a rejected
\* promise or a status other than OK planner mode is left; on OK the bus
\* markers are hidden, the itinerary layer is cleared and the legs are drawn,
\* and planner mode is left when the drawing throws.
handleItineraryResult ==
    /\ app.pc = "started"
    /\ isPlannerMode
    /\ pc = "done"
    /\ result.status # "HANG"
    /\ pc' = "idle"
    /\ IF result.status # "OK"
       THEN /\ isPlannerMode' = FALSE
            /\ UNCHANGED <<clusterShown, itineraryLayer>>
       ELSE \E drawn \in {DrawLegs(result.path, <<>>)} :
               /\ clusterShown' = FALSE
               /\ itineraryLayer' = IF drawn.thrown THEN drawn.layers
                                    ELSE drawn.layers \o EndMarkers
               /\ isPlannerMode' = ~drawn.thrown
    /\ UNCHANGED <<feed, transferMap, query, serviceId, pq, minArrivalTime, backLink,
                   finalStopId, result, expanded, popup, app, previous, timeInfo,
                   activeBuses, busesWithPositions, clock, visibleRoutes, busMarkers,
                   clusterGroup>>

\* exitPlannerMode(): planner mode is left, the itinerary layer is cleared and
\* showDefaultMap shows the bus markers again.
exitPlannerMode ==
    /\ isPlannerMode' = FALSE
    /\ itineraryLayer' = <<>>
    /\ clusterShown' = TRUE

\* The click on close-planner (or on btn-toggle-filter):
\* if (isPlannerMode) exitPlannerMode().
closePlanner ==
    /\ app.pc = "started"
    /\ NoRequestInFlight
    /\ IF isPlannerMode THEN exitPlannerMode
       ELSE UNCHANGED <<isPlannerMode, itineraryLayer, clusterShown>>
    /\ UNCHANGED <<feed, transferMap, plannerVars, popup, app, previous, timeInfo,
                   activeBuses, busesWithPositions, clock, visibleRoutes, busMarkers,
                   clusterGroup>>

\* handleRouteFilterChange(): the checked routes become the visible routes,
\* planner mode is left if it was on, and updateData() is called.
handleRouteFilterChange ==
    /\ app.pc = "started"
    /\ NoRequestInFlight
    /\ \E routes \in SUBSET {feed.routes[i].route_id : i \in 1..Len(feed.routes)} :
          /\ visibleRoutes' = routes
          /\ IF isPlannerMode THEN exitPlannerMode
             ELSE UNCHANGED <<isPlannerMode, itineraryLayer, clusterShown>>
          /\ \E seconds \in ClockTimes : updateDataAt(seconds, routes)
    /\ UNCHANGED <<feed, transferMap, plannerVars, popup, app, previous>>

NextPlanner ==
    \/ handleItineraryRequest
    \/ Begin
    \/ Iterate
    \/ Finish
    \/ handleItineraryResult
    \/ closePlanner
    \/ handleRouteFilterChange
    \/ updateData

\* routes.txt of the planner-mode catalogs: with route R1 or without it.
PlannerRoutes == {<<[route_id |-> "R1", route_short_name |-> "1", route_color |-> "FF0000",
                     route_text_color |-> "FFFFFF"]>>, <<>>}

\* The catalogs of the planner mode: S1 and S3 out of walking range of each
\* other, trip T1 from S1 (00:00:01) to S3 (00:00:02), a second trip that is
\* absent or has no row in trips.txt; the application has started and no
\* request was made.
InitPlanner ==
    /\ \E routes \in PlannerRoutes, service2 \in {"s1", "unknown"} :
          feed = loadAllData(
                    [Tables(<<StopRow("S1", 0, "", "0"), StopRow("S2", 600, "", "0"),
                              StopRow("S3", 603, "", "0")>>,
                            <<Call("S1", 1, 1), Call("S3", 2, 2)>>,
                            [calls |-> IF service2 = "unknown"
                                       THEN <<Call("S1", 1, 1), Call("S3", 2, 2)>>
                                       ELSE <<>>,
                             service |-> service2],
                            EveryDay, <<>>)
                     EXCEPT !.routes = routes])
    /\ query = [startCoords |-> Coords(0), endCoords |-> Coords(603),
                departure |-> Clock(0), date |-> Friday]
    /\ transferMap = prebuildTransferMap(feed.masterStops)
    /\ pc = "idle"
    /\ serviceId = None
    /\ pq = <<>>
    /\ minArrivalTime = [s \in StopIds |-> None]
    /\ backLink = [s \in StopIds |-> None]
    /\ finalStopId = NoStop
    /\ result = NoResult
    /\ expanded = {}
    /\ previous = None
    /\ InitLive

SpecPlanner == InitPlanner /\ [][NextPlanner]_vars

\* C30: after any sequence of itinerary requests, closings of the planner,
\* changes of the route filter and clock ticks, whenever isPlannerMode is
\* false the itinerary layer is empty and the bus markers are displayed, and
\* whenever isPlannerMode is true updateData only updates the clock and leaves
\* the bus markers alone.
C30_ModeMatchesMap ==
    /\ [](~isPlannerMode => itineraryLayer = <<>> /\ clusterShown)
    /\ [][isPlannerMode /\ isPlannerMode' /\ clock' # clock
             => UNCHANGED <<busMarkers, clusterGroup, busesWithPositions>>]_vars

====
